---------------------------- MODULE Spec2Model ----------------------------
(***************************************************************************)
(* A model of the signal pipeline of polymarket.py: domain classification, *)
(* resolution-source extraction, relevance scoring, opportunity detection, *)
(* signal generation and backtest aggregation.                             *)
(*                                                                         *)
(* Python strings are sequences of one-character strings, so that          *)
(* substring search, slicing, lower-casing and the two regular expressions *)
(* are computed character by character.  Python floats are modelled as     *)
(* exact rationals <<numerator, denominator>> in lowest terms.             *)
(***************************************************************************)
EXTENDS Integers, Sequences, FiniteSets, TLC

VARIABLES
    op,                \* the function or handler that ran last ("init" before any)
    args,              \* the arguments of a directly called function
    ret,               \* what the last call returned: [raised, value]
    markets,           \* the market records of the batch (list of dicts)
    source_data,       \* the probes, in insertion order: <<[url, info], ...>>
    clock,             \* the wall clock read by datetime.now()
    opportunities,     \* the list detect_arbitrage_opportunities returned
    signals,           \* the list generate_trading_signals returned
    backtest_results,  \* the dict backtest_strategy returned
    db,                \* the rows of table markets of polymarket.db, by id
    detector_runs, \* history: the last two detection runs
    pc             \* where main or the monitoring loop stands

vars == <<op, args, ret, markets, source_data, clock, opportunities, signals,
          backtest_results, db, detector_runs, pc>>

\* what a direct call of a pure function leaves alone
pipeline_vars == <<markets, source_data, clock, opportunities, signals,
                   backtest_results, db, detector_runs, pc>>

-----------------------------------------------------------------------------
(* Python values                                                           *)

\* None, and a str value; description may be either (market.get can return None)
PyNone == [none |-> TRUE, s |-> <<>>]

PyStr(s) == [none |-> FALSE, s |-> s]

\* a normal return and an uncaught exception
Return(v) == [raised |-> FALSE, value |-> v]

Raise(kind) == [raised |-> TRUE, value |-> kind]

NoCall == [raised |-> FALSE, value |-> "nothing"]

-----------------------------------------------------------------------------
(* str operations                                                          *)

UpperLetters ==
    <<"A", "B", "C", "D", "E", "F", "G", "H", "I", "J", "K", "L", "M",
      "N", "O", "P", "Q", "R", "S", "T", "U", "V", "W", "X", "Y", "Z">>

LowerLetters ==
    <<"a", "b", "c", "d", "e", "f", "g", "h", "i", "j", "k", "l", "m",
      "n", "o", "p", "q", "r", "s", "t", "u", "v", "w", "x", "y", "z">>

\* the lower-case letter of each upper-case one
LowerOf ==
    [c \in {UpperLetters[i] : i \in 1..26} |->
        LowerLetters[CHOOSE i \in 1..26 : UpperLetters[i] = c]]

LowerChar(c) == IF c \in DOMAIN LowerOf THEN LowerOf[c] ELSE c

\* str.lower()
Lower(s) == [i \in 1..Len(s) |-> LowerChar(s[i])]

\* the slice s[from:] with a 0-based start, as Python writes it
SliceFrom(s, from) == SubSeq(s, from + 1, Len(s))

\* whether sub occurs in s at 0-based position i
OccursAt(s, sub, i) ==
    /\ i >= 0
    /\ i + Len(sub) <= Len(s)
    /\ SubSeq(s, i + 1, i + Len(sub)) = sub

\* sub in s
Contains(s, sub) == \E i \in 0..(Len(s) - Len(sub)) : OccursAt(s, sub, i)

\* s.find(sub): the lowest index of an occurrence, or -1
Find(s, sub) ==
    IF Contains(s, sub)
    THEN CHOOSE i \in 0..(Len(s) - Len(sub)) :
            /\ OccursAt(s, sub, i)
            /\ \A j \in 0..(i - 1) : ~OccursAt(s, sub, j)
    ELSE -1

\* characters str.strip() removes and the class \s matches
Whitespace == {" ", "\t", "\n", "\r"}

RECURSIVE LStrip(_)
LStrip(s) ==
    IF s # <<>> /\ Head(s) \in Whitespace THEN LStrip(Tail(s)) ELSE s

RECURSIVE RStrip(_)
RStrip(s) ==
    IF s # <<>> /\ s[Len(s)] \in Whitespace
    THEN RStrip(SubSeq(s, 1, Len(s) - 1))
    ELSE s

\* str.strip()
Strip(s) == RStrip(LStrip(s))

\* any(keyword in text for keyword in keywords)
AnyKeywordIn(text, keywords) ==
    \E k \in 1..Len(keywords) : Contains(text, keywords[k])

\* the concatenation of a sequence of strings
RECURSIVE Concat(_)
Concat(parts) ==
    IF parts = <<>> THEN <<>> ELSE Head(parts) \o Concat(Tail(parts))

\* all sequences over S of length at most n
SeqsUpTo(S, n) == UNION {[1..k -> S] : k \in 0..n}

-----------------------------------------------------------------------------
(* categorize_market_domain                                                *)

PoliticsKeywords ==
    << <<"t", "r", "u", "m", "p">>,
       <<"e", "l", "e", "c", "t", "i", "o", "n">>,
       <<"p", "r", "e", "s", "i", "d", "e", "n", "t">>,
       <<"b", "i", "d", "e", "n">>,
       <<"w", "h", "i", "t", "e", " ", "h", "o", "u", "s", "e">>,
       <<"c", "o", "n", "g", "r", "e", "s", "s">> >>

CryptoKeywords ==
    << <<"e", "t", "f">>,
       <<"c", "r", "y", "p", "t", "o">>,
       <<"b", "i", "t", "c", "o", "i", "n">>,
       <<"e", "t", "h", "e", "r", "e", "u", "m">>,
       <<"s", "e", "c">>,
       <<"c", "o", "i", "n", "b", "a", "s", "e">> >>

EconomyKeywords ==
    << <<"f", "e", "d">>,
       <<"r", "a", "t", "e">>,
       <<"i", "n", "f", "l", "a", "t", "i", "o", "n">>,
       <<"r", "e", "c", "e", "s", "s", "i", "o", "n">>,
       <<"g", "d", "p">>,
       <<"f", "e", "d", "e", "r", "a", "l", " ", "r", "e", "s", "e", "r", "v", "e">> >>

HealthKeywords ==
    << <<"p", "a", "n", "d", "e", "m", "i", "c">>,
       <<"c", "o", "v", "i", "d">>,
       <<"w", "h", "o">>,
       <<"h", "e", "a", "l", "t", "h">>,
       <<"v", "a", "c", "c", "i", "n", "e">> >>

SportsKeywords ==
    << <<"m", "a", "t", "c", "h">>,
       <<"g", "a", "m", "e">>,
       <<"c", "h", "a", "m", "p", "i", "o", "n", "s", "h", "i", "p">>,
       <<"l", "e", "a", "g", "u", "e">>,
       <<"t", "e", "a", "m">> >>

Domains == {"politics", "crypto", "economy", "health", "sports", "other"}

\* a plausible slip: the crypto test placed before the politics test
DomainOfText_CryptoFirst(text) ==
    IF AnyKeywordIn(text, CryptoKeywords) THEN "crypto"
    ELSE IF AnyKeywordIn(text, PoliticsKeywords) THEN "politics"
    ELSE IF AnyKeywordIn(text, EconomyKeywords) THEN "economy"
    ELSE IF AnyKeywordIn(text, HealthKeywords) THEN "health"
    ELSE IF AnyKeywordIn(text, SportsKeywords) THEN "sports"
    ELSE "other"

\* the if/elif chain over text, the lower-cased question + " " + description
DomainOfText(text) ==
    IF AnyKeywordIn(text, PoliticsKeywords) THEN "politics"
    ELSE IF AnyKeywordIn(text, CryptoKeywords) THEN "crypto"
    ELSE IF AnyKeywordIn(text, EconomyKeywords) THEN "economy"
    ELSE IF AnyKeywordIn(text, HealthKeywords) THEN "health"
    ELSE IF AnyKeywordIn(text, SportsKeywords) THEN "sports"
    ELSE "other"

\* (question + " " + description).lower(); str + None raises TypeError
JoinedText(question, description) ==
    Lower(question.s \o <<" ">> \o description.s)

categorize_market_domain(question, description) ==
    IF question.none \/ description.none
    THEN Raise("TypeError")
    ELSE Return(DomainOfText(JoinedText(question, description)))

-----------------------------------------------------------------------------
(* Character codes, ordering and splitting                                 *)

\* the characters with codes 32..91, in code order
AsciiLow ==
    <<" ", "!", "\"", "#", "$", "%", "&", "'", "(", ")", "*", "+",
      ",", "-", ".", "/", "0", "1", "2", "3", "4", "5", "6", "7",
      "8", "9", ":", ";", "<", "=", ">", "?", "@", "A", "B", "C",
      "D", "E", "F", "G", "H", "I", "J", "K", "L", "M", "N", "O",
      "P", "Q", "R", "S", "T", "U", "V", "W", "X", "Y", "Z", "[">>

\* the characters with codes 93..95, in code order
AsciiMid == <<"]", "^", "_">>

\* the characters with codes 97..126, in code order
AsciiHigh ==
    <<"a", "b", "c", "d", "e", "f", "g", "h", "i", "j", "k", "l", "m",
      "n", "o", "p", "q", "r", "s", "t", "u", "v", "w", "x", "y", "z",
      "{", "|", "}", "~">>

\* ord(c), for the characters the texts of the model are written with
Ord(c) ==
    IF c = "\t" THEN 9
    ELSE IF c = "\n" THEN 10
    ELSE IF c = "\r" THEN 13
    ELSE IF \E i \in 1..Len(AsciiLow) : AsciiLow[i] = c
    THEN 31 + (CHOOSE i \in 1..Len(AsciiLow) : AsciiLow[i] = c)
    ELSE IF \E i \in 1..Len(AsciiMid) : AsciiMid[i] = c
    THEN 92 + (CHOOSE i \in 1..Len(AsciiMid) : AsciiMid[i] = c)
    ELSE 96 + (CHOOSE i \in 1..Len(AsciiHigh) : AsciiHigh[i] = c)

\* a < b for two str values (code point by code point, a prefix is smaller)
RECURSIVE StrLess(_, _)
StrLess(a, b) ==
    IF b = <<>> THEN FALSE
    ELSE IF a = <<>> THEN TRUE
    ELSE IF Head(a) # Head(b) THEN Ord(Head(a)) < Ord(Head(b))
    ELSE StrLess(Tail(a), Tail(b))

\* sorted(S) for a set of str values
RECURSIVE Sorted(_)
Sorted(S) ==
    IF S = {} THEN <<>>
    ELSE LET least == CHOOSE a \in S : \A b \in S \ {a} : StrLess(a, b)
         IN  <<least>> \o Sorted(S \ {least})

\* s.split(sep)[-1]
RECURSIVE SplitLast(_, _)
SplitLast(s, sep) ==
    IF Find(s, sep) = -1 THEN s
    ELSE SplitLast(SliceFrom(s, Find(s, sep) + Len(sep)), sep)

\* s.split(sep)[0]
SplitFirst(s, sep) ==
    IF Find(s, sep) = -1 THEN s ELSE SubSeq(s, 1, Find(s, sep))

\* s.replace(old, ""), old not empty
RECURSIVE Remove(_, _)
Remove(s, old) ==
    IF Find(s, old) = -1 THEN s
    ELSE SubSeq(s, 1, Find(s, old))
            \o Remove(SliceFrom(s, Find(s, old) + Len(old)), old)

\* url.split("//")[-1].split("/")[0]
HostOf(url) == SplitFirst(SplitLast(url, <<"/", "/">>), <<"/">>)

-----------------------------------------------------------------------------
(* extract_resolution_source and extract_urls                              *)

ResolutionSourceNeedle ==
    <<"r", "e", "s", "o", "l", "u", "t", "i", "o", "n", " ",
      "s", "o", "u", "r", "c", "e">>

\* re.match(r'^(.*?\.)', snippet): group 1 is the shortest prefix that ends
\* with a period; "." matches any character except a newline, so the match
\* fails when a newline precedes the first period (or there is no period).
\* The result is the length of group 1, 0 for no match.
SentenceMatch(snippet) ==
    LET k == Find(snippet, <<".">>)
    IN  IF k = -1 THEN 0
        ELSE IF \E i \in 1..k : snippet[i] = "\n" THEN 0
        ELSE k + 1

extract_resolution_source(description) ==
    IF description.none
    THEN Raise("AttributeError")
    ELSE LET idx == Find(Lower(description.s), ResolutionSourceNeedle)
         IN  IF idx = -1
             THEN Return(PyNone)
             ELSE LET snippet == SliceFrom(description.s, idx)
                      m == SentenceMatch(snippet)
                  IN  IF m > 0
                      THEN Return(PyStr(Strip(SubSeq(snippet, 1, m))))
                      ELSE Return(PyStr(Strip(snippet)))

\* the class [^\s,)] of the URL pattern, by the characters it excludes
UrlStopChars_NoParen == Whitespace \cup {","}

UrlStopChars == Whitespace \cup {",", ")"}

\* the last position of the run of URL characters that starts at i (1-based);
\* i - 1 when text[i] is not a URL character
RECURSIVE UrlRunEnd(_, _)
UrlRunEnd(text, i) ==
    IF i > Len(text) \/ text[i] \in UrlStopChars
    THEN i - 1
    ELSE UrlRunEnd(text, i + 1)

\* the pattern https?://[^\s,)]+ tried at position i (1-based): the last
\* position of the greedy match, 0 when it does not match there
UrlMatchEnd(text, i) ==
    LET plen == IF OccursAt(text, <<"h", "t", "t", "p", "s", ":", "/", "/">>, i - 1)
                THEN 8
                ELSE IF OccursAt(text, <<"h", "t", "t", "p", ":", "/", "/">>, i - 1)
                THEN 7
                ELSE 0
        e == UrlRunEnd(text, i + plen)
    IN  IF plen > 0 /\ e >= i + plen THEN e ELSE 0

\* re.findall: leftmost matches, left to right, none overlapping
RECURSIVE FindAllUrls(_, _)
FindAllUrls(text, i) ==
    IF i > Len(text) THEN <<>>
    ELSE LET e == UrlMatchEnd(text, i)
         IN  IF e > 0
             THEN <<SubSeq(text, i, e)>> \o FindAllUrls(text, e + 1)
             ELSE FindAllUrls(text, i + 1)

extract_urls(text) == FindAllUrls(text, 1)

-----------------------------------------------------------------------------
(* The callers that walk a batch of markets                                *)

\* market.get("description", ""): the default only when the key is absent;
\* a key present with value null gives None
GetDescription(market) ==
    IF market.has_description THEN market.description ELSE PyStr(<<>>)

\* the elements of a list
Elements(list) == {list[i] : i \in 1..Len(list)}

\* extract_urls(resolution_source) under "if resolution_source:"
UrlsOfSource(res) ==
    IF ~res.none /\ res.s # <<>> THEN extract_urls(res.s) ELSE <<>>

RECURSIVE ListSourcesLoop(_, _, _)
ListSourcesLoop(ms, i, sources) ==
    IF i > Len(ms) THEN Return(Sorted(sources))
    ELSE LET r == extract_resolution_source(GetDescription(ms[i]))
         IN  IF r.raised THEN r
             ELSE ListSourcesLoop(ms, i + 1,
                                  sources \cup Elements(UrlsOfSource(r.value)))

list_all_resolution_sources(ms) == ListSourcesLoop(ms, 1, {})

\* url.split("//")[-1].split("/")[0].replace("www.", "")
DomainNameOf(url) == Remove(HostOf(url), <<"w", "w", "w", ".">>)

EmptyPatterns ==
    [d \in Domains |-> [count |-> 0, markets |-> <<>>, sources |-> {}]]

RECURSIVE AnalyzeLoop(_, _, _)
AnalyzeLoop(ms, i, domains) ==
    IF i > Len(ms) THEN Return(domains)
    ELSE LET description == GetDescription(ms[i])
             c == categorize_market_domain(ms[i].question, description)
         IN  IF c.raised THEN c
             ELSE LET r == extract_resolution_source(description)
                  IN  IF r.raised THEN r
                      ELSE LET names == {DomainNameOf(u) :
                                            u \in Elements(UrlsOfSource(r.value))}
                               old == domains[c.value]
                           IN  AnalyzeLoop(ms, i + 1,
                                   [domains EXCEPT ![c.value] =
                                       [count |-> old.count + 1,
                                        markets |-> Append(old.markets, ms[i]),
                                        sources |-> old.sources \cup names]])

analyze_resolution_patterns(ms) == AnalyzeLoop(ms, 1, EmptyPatterns)

\* INSERT OR REPLACE INTO markets, keyed by id
Upsert(table, id, row) ==
    [k \in DOMAIN table \cup {id} |-> IF k = id THEN row ELSE table[k]]

\* the loop of save_markets: the table after the last row, or the exception
RECURSIVE SaveLoop(_, _, _)
SaveLoop(ms, i, table) ==
    IF i > Len(ms) THEN Return(table)
    ELSE LET description == GetDescription(ms[i])
             c == categorize_market_domain(ms[i].question, description)
         IN  IF c.raised THEN c
             ELSE LET r == extract_resolution_source(description)
                  IN  IF r.raised THEN r
                      ELSE SaveLoop(ms, i + 1,
                               Upsert(table, ms[i].id,
                                      [question |-> ms[i].question,
                                       description |-> description,
                                       domain |-> c.value,
                                       resolution_source |-> r.value]))

-----------------------------------------------------------------------------
(* Direct calls of categorize_market_domain on bounded texts               *)

MaxDescriptionChunks == 2

\* pieces the texts are built from: keywords of each priority, a keyword in
\* upper case, the two halves of "white house", a filler and a blank
DomainChunks ==
    { <<"T", "r", "u", "m", "p">>, <<"b", "i", "t", "c", "o", "i", "n">>,
      <<"S", "E", "C">>, <<"f", "e", "d">>, <<"w", "h", "o">>,
      <<"g", "a", "m", "e">>, <<"w", "h", "i", "t", "e">>,
      <<"h", "o", "u", "s", "e">>, <<"x">>, <<" ">> }

DomainQuestions == {<<>>} \cup DomainChunks

DomainDescriptions ==
    {Concat(c) : c \in SeqsUpTo(DomainChunks, MaxDescriptionChunks)}

InitDomain ==
    /\ op = "init"
    /\ args \in [question : {PyStr(q) : q \in DomainQuestions},
                 description : {PyStr(d) : d \in DomainDescriptions}]
    /\ ret = NoCall
    /\ markets = <<>>
    /\ source_data = <<>>
    /\ clock = 0
    /\ opportunities = <<>>
    /\ signals = <<>>
    /\ backtest_results = <<>>
    /\ db = <<>>
    /\ detector_runs = <<>>
    /\ pc = "call"

CallCategorize ==
    /\ op = "init"
    /\ op' = "categorize_market_domain"
    /\ ret' = categorize_market_domain(args.question, args.description)
    /\ UNCHANGED <<args, pipeline_vars>>

NextDomain == CallCategorize

SpecDomain == InitDomain /\ [][NextDomain]_vars

\* C1: categorize_market_domain returns exactly one of the six domains, the
\* first in the order politics > crypto > economy > health > sports whose
\* keyword set has a member occurring in the lower-cased text, and "other"
\* when no keyword of any set occurs (the empty text included).
C1_FirstMatchWins ==
    op = "categorize_market_domain" =>
        LET text == Lower(args.question.s \o <<" ">> \o args.description.s)
            pol == AnyKeywordIn(text, PoliticsKeywords)
            cry == AnyKeywordIn(text, CryptoKeywords)
            eco == AnyKeywordIn(text, EconomyKeywords)
            hea == AnyKeywordIn(text, HealthKeywords)
            spo == AnyKeywordIn(text, SportsKeywords)
        IN  /\ ~ret.raised
            /\ ret.value \in Domains
            /\ pol => ret.value = "politics"
            /\ (~pol /\ cry) => ret.value = "crypto"
            /\ (~pol /\ ~cry /\ eco) => ret.value = "economy"
            /\ (~pol /\ ~cry /\ ~eco /\ hea) => ret.value = "health"
            /\ (~pol /\ ~cry /\ ~eco /\ ~hea /\ spo) => ret.value = "sports"
            /\ (~pol /\ ~cry /\ ~eco /\ ~hea /\ ~spo) => ret.value = "other"
            /\ Contains(text, <<"t", "r", "u", "m", "p">>) => ret.value = "politics"

\* a text with "trump" and the crypto keyword "bitcoin" was classified politics
C1_Witness ==
    /\ op = "categorize_market_domain"
    /\ Contains(Lower(args.description.s), <<"t", "r", "u", "m", "p">>)
    /\ Contains(Lower(args.description.s), <<"b", "i", "t", "c", "o", "i", "n">>)
    /\ ret.value = "politics"

-----------------------------------------------------------------------------
(* Direct calls of extract_resolution_source, and the batch callers        *)

MaxSourceChunks == 4

MaxBatch == 2

\* the example of the specification's testable properties
BeaExample ==
    <<"R", "e", "s", "o", "l", "u", "t", "i", "o", "n", " ", "S",
      "o", "u", "r", "c", "e", ":", " ", "B", "E", "A", ".", "g",
      "o", "v", " ", "d", "a", "t", "a", ".">>

\* the example of the function's docstring
DocstringExample ==
    <<"W", "i", "l", "l", " ", "T", "r", "u", "m", "p", " ", "w",
      "i", "n", "?", " ", "R", "e", "s", "o", "l", "u", "t", "i",
      "o", "n", " ", "s", "o", "u", "r", "c", "e", ":", " ", "O",
      "f", "f", "i", "c", "i", "a", "l", " ", "e", "l", "e", "c",
      "t", "i", "o", "n", " ", "r", "e", "s", "u", "l", "t", "s",
      ".">>

\* a resolution sentence that names two URLs
TwoUrlExample ==
    <<"R", "e", "s", "o", "l", "u", "t", "i", "o", "n", " ", "S",
      "o", "u", "r", "c", "e", ":", " ", "s", "e", "e", " ", "h",
      "t", "t", "p", "s", ":", "/", "/", "a", ".", "c", "o", "m",
      "/", "x", ",", " ", "a", "n", "d", " ", "h", "t", "t", "p",
      "s", ":", "/", "/", "w", "w", "w", ".", "b", ".", "o", "r",
      "g", ")", ".">>

NoSourceExample ==
    <<"W", "i", "l", "l", " ", "G", "D", "P", " ", "g", "r", "o",
      "w", "?">>

SourceChunks ==
    { <<"R", "e", "s", "o", "l", "u", "t", "i", "o", "n", " ",
        "S", "o", "u", "r", "c", "e", ":">>,
      ResolutionSourceNeedle, <<".">>, <<"\n">>, <<" ">>, <<"a">> }

SourceDescriptions ==
    {PyNone}
        \cup {PyStr(Concat(c)) : c \in SeqsUpTo(SourceChunks, MaxSourceChunks)}
        \cup {PyStr(BeaExample), PyStr(DocstringExample), PyStr(TwoUrlExample)}

\* a market dict: description may be absent, null or a str
BatchMarkets ==
    {[id |-> i, question |-> PyStr(NoSourceExample),
      has_description |-> FALSE, description |-> PyStr(<<>>)] :
        i \in {<<"1">>, <<"2">>}}
    \cup
    [id : {<<"1">>, <<"2">>}, question : {PyStr(NoSourceExample)},
     has_description : {TRUE},
     description : {PyNone, PyStr(<<>>), PyStr(NoSourceExample),
                    PyStr(TwoUrlExample), PyStr(DocstringExample)}]

InitSource ==
    /\ op = "init"
    /\ \/ /\ args \in [description : SourceDescriptions]
          /\ markets = <<>>
       \/ /\ args = [description |-> PyStr(<<>>)]
          /\ markets \in SeqsUpTo(BatchMarkets, MaxBatch)
    /\ ret = NoCall
    /\ source_data = <<>>
    /\ clock = 0
    /\ opportunities = <<>>
    /\ signals = <<>>
    /\ backtest_results = <<>>
    /\ db = <<>>
    /\ detector_runs = <<>>
    /\ pc = "call"

CallExtractResolutionSource ==
    /\ op = "init"
    /\ op' = "extract_resolution_source"
    /\ ret' = extract_resolution_source(args.description)
    /\ UNCHANGED <<args, pipeline_vars>>

CallAnalyzeResolutionPatterns ==
    /\ op = "init"
    /\ op' = "analyze_resolution_patterns"
    /\ ret' = analyze_resolution_patterns(markets)
    /\ UNCHANGED <<args, pipeline_vars>>

CallListAllResolutionSources ==
    /\ op = "init"
    /\ op' = "list_all_resolution_sources"
    /\ ret' = list_all_resolution_sources(markets)
    /\ UNCHANGED <<args, pipeline_vars>>

\* PolymarketDB.save_markets: the connection's context manager commits when
\* the loop ends and rolls back when it raises
save_markets ==
    /\ op = "init"
    /\ op' = "save_markets"
    /\ LET r == SaveLoop(markets, 1, db)
       IN  IF r.raised
           THEN ret' = r /\ db' = db
           ELSE ret' = Return(PyNone) /\ db' = r.value
    /\ UNCHANGED <<args, markets, source_data, clock, opportunities, signals,
                   backtest_results, detector_runs, pc>>

NextSource ==
    \/ CallExtractResolutionSource
    \/ CallAnalyzeResolutionPatterns
    \/ CallListAllResolutionSources
    \/ save_markets

SpecSource == InitSource /\ [][NextSource]_vars

\* whether a str contains "resolution source" in any letter case
MentionsSource(s) == Contains(Lower(s), ResolutionSourceNeedle)

\* C2: for every description containing "resolution source" (any case, line
\* breaks included) the result runs from the first occurrence to the first
\* period after it, period included, and is the stripped remaining suffix
\* only when no period follows at all.
C2_EndsAtFirstPeriod ==
    (/\ op = "extract_resolution_source"
     /\ ~args.description.none
     /\ MentionsSource(args.description.s))
    => LET d == args.description.s
           suffix == SliceFrom(d, Find(Lower(d), ResolutionSourceNeedle))
           k == Find(suffix, <<".">>)
       IN  /\ ~ret.raised
           /\ ~ret.value.none
           /\ ret.value.s = IF k # -1 THEN SubSeq(suffix, 1, k + 1)
                            ELSE Strip(suffix)

\* C3: extract_resolution_source("Resolution Source: BEA.gov data.") returns
\* that whole string.
C3_BeaExampleWhole ==
    (op = "extract_resolution_source" /\ args.description = PyStr(BeaExample))
    => (~ret.raised /\ ret.value = PyStr(BeaExample))

\* whether a market's description (absent, null or str) lacks the substring
LacksSource(market) ==
    \/ ~market.has_description
    \/ market.description.none
    \/ ~MentionsSource(market.description.s)

\* C4: when no market of the batch has a description containing "resolution
\* source" (empty, absent and null descriptions included), each batch caller
\* returns without raising, with no resolution source and no URL.
C4_NoSourceNoException ==
    (/\ op \in {"analyze_resolution_patterns", "list_all_resolution_sources",
                "save_markets"}
     /\ \A i \in 1..Len(markets) : LacksSource(markets[i]))
    => /\ ~ret.raised
       /\ op = "list_all_resolution_sources" => ret.value = <<>>
       /\ op = "analyze_resolution_patterns" =>
              \A d \in Domains : ret.value[d].sources = {}
       /\ op = "save_markets" =>
              \A k \in DOMAIN db : db[k].resolution_source = PyNone

-----------------------------------------------------------------------------
(* Direct calls of extract_urls on bounded texts                           *)

MaxUrlChunks == 4

\* the example of the specification's testable properties
UrlExample ==
    <<"s", "e", "e", " ", "h", "t", "t", "p", "s", ":", "/", "/",
      "a", ".", "c", "o", "m", "/", "x", ",", " ", "a", "n", "d",
      " ", "h", "t", "t", "p", "s", ":", "/", "/", "b", ".", "o",
      "r", "g", ")">>

UrlChunks ==
    { <<"h", "t", "t", "p", ":", "/", "/">>,
      <<"h", "t", "t", "p", "s", ":", "/", "/">>,
      <<"a">>, <<",">>, <<")">>, <<" ">> }

UrlTexts ==
    {Concat(c) : c \in SeqsUpTo(UrlChunks, MaxUrlChunks)} \cup {UrlExample}

InitUrls ==
    /\ op = "init"
    /\ args \in [text : UrlTexts]
    /\ ret = NoCall
    /\ markets = <<>>
    /\ source_data = <<>>
    /\ clock = 0
    /\ opportunities = <<>>
    /\ signals = <<>>
    /\ backtest_results = <<>>
    /\ db = <<>>
    /\ detector_runs = <<>>
    /\ pc = "call"

CallExtractUrls ==
    /\ op = "init"
    /\ op' = "extract_urls"
    /\ ret' = Return(extract_urls(args.text))
    /\ UNCHANGED <<args, pipeline_vars>>

NextUrls == CallExtractUrls

SpecUrls == InitUrls /\ [][NextUrls]_vars

\* a str that is "http://" or "https://" followed by one or more characters
\* that are not whitespace, comma or ")"
IsUrlShaped(w) ==
    \E plen \in {7, 8} :
        /\ Len(w) > plen
        /\ SubSeq(w, 1, plen) =
               (IF plen = 7 THEN <<"h", "t", "t", "p", ":", "/", "/">>
                ELSE <<"h", "t", "t", "p", "s", ":", "/", "/">>)
        /\ \A i \in (plen + 1)..Len(w) :
               w[i] \notin {" ", "\t", "\n", "\r", ",", ")"}

\* the spans <<first, last>> of the URL-shaped substrings of text
UrlSpans(text) ==
    {sp \in (1..Len(text)) \X (1..Len(text)) :
        sp[1] <= sp[2] /\ IsUrlShaped(SubSeq(text, sp[1], sp[2]))}

\* those contained in no other URL-shaped substring
MaximalUrlSpans(text) ==
    {sp \in UrlSpans(text) :
        \A other \in UrlSpans(text) :
            (other[1] <= sp[1] /\ sp[2] <= other[2]) => other = sp}

-----------------------------------------------------------------------------
(* float arithmetic, as exact rationals <<numerator, denominator>>         *)

Abs(n) == IF n < 0 THEN -n ELSE n

RECURSIVE GCD(_, _)
GCD(a, b) == IF b = 0 THEN a ELSE GCD(b, a % b)

\* n / d in lowest terms, d > 0
Frac(n, d) ==
    LET g == GCD(Abs(n), d) IN IF n = 0 THEN <<0, 1>> ELSE <<n \div g, d \div g>>

Zero == <<0, 1>>

One == <<1, 1>>

RAdd(a, b) == Frac(a[1] * b[2] + b[1] * a[2], a[2] * b[2])

RSub(a, b) == Frac(a[1] * b[2] - b[1] * a[2], a[2] * b[2])

RMul(a, b) == Frac(a[1] * b[1], a[2] * b[2])

RLess(a, b) == a[1] * b[2] < b[1] * a[2]

RLeq(a, b) == a[1] * b[2] <= b[1] * a[2]

\* max(a, b) and min(a, b)
RMax(a, b) == IF RLess(a, b) THEN b ELSE a

RMin(a, b) == IF RLess(b, a) THEN b ELSE a

-----------------------------------------------------------------------------
(* calculate_relevance                                                     *)

\* the dict source_keywords, keyed by host; .get(host, []) for the others
SourceProfile(host) ==
    IF host = <<"f", "r", "e", "d", ".", "s", "t", "l", "o", "u", "i", "s",
                "f", "e", "d", ".", "o", "r", "g">>
    THEN {"federal spending", "government spending", "expenditure"}
    ELSE IF host = <<"f", "e", "d", "e", "r", "a", "l", "r", "e", "s", "e",
                     "r", "v", "e", ".", "g", "o", "v">>
    THEN {"federal reserve", "interest rate", "monetary policy"}
    ELSE IF host = <<"b", "e", "a", ".", "g", "o", "v">>
    THEN {"gdp", "gross domestic product", "economic growth"}
    ELSE IF host = <<"n", "b", "e", "r", ".", "o", "r", "g">>
    THEN {"recession", "economic downturn", "business cycle"}
    ELSE {}

\* a slip: the boost given from 1000 characters on instead of above 1000
HasContentBoost_From1000(source_info) ==
    source_info.status = "success" /\ source_info.content_length >= 1000

\* source_info["status"] == "success" and source_info["content_length"] > 1000
HasContentBoost(source_info) ==
    source_info.status = "success" /\ source_info.content_length > 1000

\* market_keywords is the set of the list's elements
calculate_relevance(source_url, market_keywords, source_info) ==
    IF market_keywords = {} THEN Zero
    ELSE LET source_keywords_set == SourceProfile(HostOf(source_url))
             intersection == Cardinality(market_keywords \cap source_keywords_set)
             union == Cardinality(market_keywords \cup source_keywords_set)
         IN  IF source_keywords_set = {} THEN Zero
             ELSE IF union = 0 THEN Zero
             ELSE LET relevance == Frac(intersection, union)
                      boosted == IF HasContentBoost(source_info)
                                 THEN RMul(relevance, Frac(12, 10))
                                 ELSE relevance
                  IN  RMin(boosted, One)

-----------------------------------------------------------------------------
(* The ROI formulas                                                        *)

\* a slip: the V1 result returned without max(roi, 0.0)
calculate_potential_roi_v1_Unclamped(information_value, polymarket_probability, polymarket_fee) ==
    IF information_value
    THEN RSub(RSub(One, polymarket_probability), polymarket_fee)
    ELSE RSub(polymarket_probability, polymarket_fee)

calculate_potential_roi_v1(information_value, polymarket_probability, polymarket_fee) ==
    LET roi == IF information_value
               THEN RSub(RSub(One, polymarket_probability), polymarket_fee)
               ELSE RSub(polymarket_probability, polymarket_fee)
    IN  RMax(roi, Zero)

\* a slip: the probability used as it is, time_factor ignored
AdjustedRoi_Unscaled(information_value, polymarket_probability, polymarket_fee, time_factor) ==
    calculate_potential_roi_v1(information_value, polymarket_probability, polymarket_fee)

\* a slip: the probability divided by time_factor instead of multiplied
AdjustedRoi_Divided(information_value, polymarket_probability, polymarket_fee, time_factor) ==
    LET adjusted_probability ==
            RMax(Zero, RMin(One, RMul(polymarket_probability,
                                      Frac(time_factor[2], time_factor[1]))))
        roi == IF information_value
               THEN RSub(RSub(One, adjusted_probability), polymarket_fee)
               ELSE RSub(adjusted_probability, polymarket_fee)
    IN  RMax(roi, Zero)

\* max(0.0, min(1.0, probability * time_factor)), then the V1 branches
AdjustedRoi(information_value, polymarket_probability, polymarket_fee, time_factor) ==
    LET adjusted_probability ==
            RMax(Zero, RMin(One, RMul(polymarket_probability, time_factor)))
        roi == IF information_value
               THEN RSub(RSub(One, adjusted_probability), polymarket_fee)
               ELSE RSub(adjusted_probability, polymarket_fee)
    IN  RMax(roi, Zero)

\* a slip: the early return for closed markets left out
calculate_potential_roi_v2_NoClosedCheck(information_value, polymarket_probability, polymarket_fee, time_factor, market_status) ==
    AdjustedRoi(information_value, polymarket_probability, polymarket_fee,
                time_factor)

calculate_potential_roi_v2(information_value, polymarket_probability, polymarket_fee, time_factor, market_status) ==
    IF market_status = "closed" THEN Zero
    ELSE AdjustedRoi(information_value, polymarket_probability, polymarket_fee,
                     time_factor)

\* an optional argument: None or a value
Some(v) == [none |-> FALSE, v |-> v]

\* a slip: the default of the signature written 1.1
DefaultTimeFactor_ElevenTenths == Frac(11, 10)

\* time_factor: float = 1.0 in the signature of calculate_potential_roi_v2
DefaultTimeFactorV2 == One

\* time_factor: float = 1.0 in the signature of calculate_potential_roi
DefaultTimeFactorRoi == One

\* the value a parameter takes: the argument, or the default when omitted
ValueOr(arg, default) == IF arg.none THEN default ELSE arg.v

Omitted == [none |-> TRUE, v |-> 0]

calculate_potential_roi(relevance_score, information_value_arg, polymarket_probability_arg, polymarket_fee, time_factor, market_status, use_v2) ==
    LET information_value ==
            IF information_value_arg.none
            THEN RLess(Frac(1, 2), relevance_score)
            ELSE information_value_arg.v
        polymarket_probability ==
            IF polymarket_probability_arg.none
            THEN Frac(1, 2)
            ELSE polymarket_probability_arg.v
        roi_v1 == calculate_potential_roi_v1(information_value,
                                             polymarket_probability,
                                             polymarket_fee)
        roi_v2 == calculate_potential_roi_v2(information_value,
                                             polymarket_probability,
                                             polymarket_fee, time_factor,
                                             market_status)
    IN  [roi_v1 |-> roi_v1,
         roi_v2 |-> roi_v2,
         primary_roi |-> IF use_v2 THEN roi_v2 ELSE roi_v1,
         information_value |-> information_value,
         polymarket_probability |-> polymarket_probability,
         time_factor |-> time_factor,
         market_status |-> market_status]

-----------------------------------------------------------------------------
(* Direct calls of calculate_relevance                                     *)

MaxKeywords == 3

FredUrl ==
    <<"h", "t", "t", "p", "s", ":", "/", "/", "f", "r", "e", "d",
      ".", "s", "t", "l", "o", "u", "i", "s", "f", "e", "d", ".",
      "o", "r", "g", "/", "s", "e", "r", "i", "e", "s", "/", "F",
      "G", "E", "X", "P", "N", "D">>

FederalReserveUrl ==
    <<"h", "t", "t", "p", "s", ":", "/", "/", "w", "w", "w", ".",
      "f", "e", "d", "e", "r", "a", "l", "r", "e", "s", "e", "r",
      "v", "e", ".", "g", "o", "v", "/", "m", "o", "n", "e", "t",
      "a", "r", "y", "p", "o", "l", "i", "c", "y", "/", "o", "p",
      "e", "n", "m", "a", "r", "k", "e", "t", ".", "h", "t", "m">>

BeaUrl ==
    <<"h", "t", "t", "p", "s", ":", "/", "/", "w", "w", "w", ".",
      "b", "e", "a", ".", "g", "o", "v", "/", "d", "a", "t", "a",
      "/", "g", "d", "p", "/", "g", "r", "o", "s", "s", "-", "d",
      "o", "m", "e", "s", "t", "i", "c", "-", "p", "r", "o", "d",
      "u", "c", "t">>

NberUrl ==
    <<"h", "t", "t", "p", "s", ":", "/", "/", "w", "w", "w", ".",
      "n", "b", "e", "r", ".", "o", "r", "g", "/">>

get_economy_resolution_sources == <<FredUrl, FederalReserveUrl, BeaUrl, NberUrl>>

\* a URL whose host is bea.gov, one of an unknown host, one without a scheme
BareBeaUrl ==
    <<"h", "t", "t", "p", "s", ":", "/", "/", "b", "e", "a", ".",
      "g", "o", "v", "/", "d", "a", "t", "a", "/", "g", "d", "p">>

\* the NBER host without "www."
BareNberUrl ==
    <<"h", "t", "t", "p", "s", ":", "/", "/", "n", "b", "e", "r",
    ".", "o", "r", "g", "/">>

UnknownUrl ==
    <<"h", "t", "t", "p", "s", ":", "/", "/", "e", "x", "a", "m",
      "p", "l", "e", ".", "c", "o", "m", "/">>

SchemelessUrl ==
    <<"n", "b", "e", "r", ".", "o", "r", "g">>

RelevanceUrls ==
    Elements(get_economy_resolution_sources)
        \cup {BareBeaUrl, UnknownUrl, SchemelessUrl}

KeywordUniverse ==
    {"gdp", "gross domestic product", "economic growth", "federal spending",
     "government spending", "expenditure", "budget", "recession"}

KeywordSets == {M \in SUBSET KeywordUniverse : Cardinality(M) <= MaxKeywords}

\* the probe records monitor_resolution_source builds, by the fields read here
Probes ==
    [status : {"success"}, content_length : {0, 1000, 1001, 5000}]
        \cup {[status |-> "error"]}

InitRelevance ==
    /\ op = "init"
    /\ args \in [source_url : RelevanceUrls, market_keywords : KeywordSets,
                 source_info : Probes]
    /\ ret = NoCall
    /\ markets = <<>>
    /\ source_data = <<>>
    /\ clock = 0
    /\ opportunities = <<>>
    /\ signals = <<>>
    /\ backtest_results = <<>>
    /\ db = <<>>
    /\ detector_runs = <<>>
    /\ pc = "call"

CallCalculateRelevance ==
    /\ op = "init"
    /\ op' = "calculate_relevance"
    /\ ret' = Return(calculate_relevance(args.source_url, args.market_keywords,
                                         args.source_info))
    /\ UNCHANGED <<args, pipeline_vars>>

NextRelevance == CallCalculateRelevance

SpecRelevance == InitRelevance /\ [][NextRelevance]_vars

\* C6: calculate_relevance returns min(1, J * b): J the Jaccard similarity of
\* the market keywords and the profile of the URL's host (0 when either set
\* is empty), b = 1.2 exactly when the probe succeeded with more than 1000
\* characters, else 1; the result lies in [0, 1]; {gdp, economic growth}
\* against the bea.gov profile has J = 2/3.
C6_JaccardTimesBoost ==
    op = "calculate_relevance" =>
        LET M == args.market_keywords
            S == SourceProfile(HostOf(args.source_url))
            J == IF M = {} \/ S = {} \/ M \cup S = {} THEN Zero
                 ELSE Frac(Cardinality(M \cap S), Cardinality(M \cup S))
            b == IF /\ args.source_info.status = "success"
                    /\ args.source_info.content_length > 1000
                 THEN Frac(12, 10)
                 ELSE One
        IN  /\ ret.value = RMin(One, RMul(J, b))
            /\ RLeq(Zero, ret.value)
            /\ RLeq(ret.value, One)
            /\ (args.source_url = BareBeaUrl /\ M = {"gdp", "economic growth"})
                  => /\ J = <<2, 3>>
                     /\ ret.value = IF b = One THEN <<2, 3>> ELSE <<4, 5>>

\* {gdp, economic growth} was scored against bea.gov without the boost: 2/3
C6_Witness ==
    /\ op = "calculate_relevance"
    /\ args.source_url = BareBeaUrl
    /\ args.market_keywords = {"gdp", "economic growth"}
    /\ args.source_info = [status |-> "success", content_length |-> 1000]
    /\ ret.value = <<2, 3>>

-----------------------------------------------------------------------------
(* Direct calls of the ROI formulas                                        *)

\* probabilities, some outside [0, 1] to exercise the clamps
RoiProbabilities ==
    {Frac(-1, 10), Zero, Frac(1, 100), Frac(2, 100), Frac(3, 10), Frac(1, 2),
     Frac(7, 10), Frac(9, 10), Frac(98, 100), One, Frac(11, 10)}

RoiFees == {Zero, Frac(2, 100), Frac(1, 2), Frac(3, 2)}

RoiTimeFactors == {Frac(1, 2), One, Frac(11, 10), Frac(12, 10), <<2, 1>>}

MarketStatuses == {"open", "closed", "resolved"}

InitRoi ==
    /\ op = "init"
    /\ args \in [information_value : BOOLEAN,
                 polymarket_probability : RoiProbabilities,
                 polymarket_fee : RoiFees,
                 time_factor : {Some(f) : f \in RoiTimeFactors} \cup {Omitted},
                 market_status : MarketStatuses,
                 use_v2 : BOOLEAN]
    /\ ret = NoCall
    /\ markets = <<>>
    /\ source_data = <<>>
    /\ clock = 0
    /\ opportunities = <<>>
    /\ signals = <<>>
    /\ backtest_results = <<>>
    /\ db = <<>>
    /\ detector_runs = <<>>
    /\ pc = "call"

CallRoiV1 ==
    /\ op = "init"
    /\ op' = "calculate_potential_roi_v1"
    /\ ret' = Return(calculate_potential_roi_v1(args.information_value,
                                                args.polymarket_probability,
                                                args.polymarket_fee))
    /\ UNCHANGED <<args, pipeline_vars>>

CallRoiV2 ==
    /\ op = "init"
    /\ op' = "calculate_potential_roi_v2"
    /\ ret' = Return(calculate_potential_roi_v2(args.information_value,
                                                args.polymarket_probability,
                                                args.polymarket_fee,
                                                ValueOr(args.time_factor, DefaultTimeFactorV2),
                                                args.market_status))
    /\ UNCHANGED <<args, pipeline_vars>>

\* relevance_score is read only when information_value is omitted
CallRoi ==
    /\ op = "init"
    /\ op' = "calculate_potential_roi"
    /\ ret' = Return(calculate_potential_roi(Frac(1, 2),
                                             Some(args.information_value),
                                             Some(args.polymarket_probability),
                                             args.polymarket_fee,
                                             ValueOr(args.time_factor, DefaultTimeFactorRoi),
                                             args.market_status,
                                             args.use_v2))
    /\ UNCHANGED <<args, pipeline_vars>>

NextRoi == CallRoiV1 \/ CallRoiV2 \/ CallRoi

SpecRoi == InitRoi /\ [][NextRoi]_vars

\* C7: calculate_potential_roi_v1 returns max(0, 1 - p - f) when
\* information_value is true and max(0, p - f) when it is false, never a
\* negative number; (true, 0.7, 0.02) gives 0.28, (false, 0.7, 0.02) 0.68.
C7_RoiV1Formula ==
    op = "calculate_potential_roi_v1" =>
        LET p == args.polymarket_probability
            f == args.polymarket_fee
            raw == IF args.information_value
                   THEN RSub(One, RAdd(p, f))
                   ELSE RSub(p, f)
        IN  /\ ret.value = IF RLess(raw, Zero) THEN Zero ELSE raw
            /\ RLeq(Zero, ret.value)
            /\ (p = Frac(7, 10) /\ f = Frac(2, 100)) =>
                  ret.value = IF args.information_value
                              THEN Frac(28, 100)
                              ELSE Frac(68, 100)

\* V1 ran on a raw value below zero (p = 0.98, fee = 0.5) and returned 0
C7_Witness ==
    /\ op = "calculate_potential_roi_v1"
    /\ args.information_value
    /\ args.polymarket_probability = Frac(98, 100)
    /\ args.polymarket_fee = Frac(1, 2)
    /\ ret.value = Zero

\* C8: calculate_potential_roi_v2 returns 0.0 whenever market_status is
\* "closed", and calculate_potential_roi then reports roi_v2 = 0.0, and
\* primary_roi = 0.0 when use_v2 is true.
C8_ClosedMarketZero ==
    args.market_status = "closed" =>
        /\ op = "calculate_potential_roi_v2" => ret.value = Zero
        /\ op = "calculate_potential_roi" =>
              /\ ret.value.roi_v2 = Zero
              /\ args.use_v2 => ret.value.primary_roi = Zero

\* the combined ROI ran on a closed market whose V1 value is positive
C8_Witness ==
    /\ op = "calculate_potential_roi"
    /\ args.market_status = "closed"
    /\ args.use_v2
    /\ ret.value.roi_v1 # Zero
    /\ ret.value.primary_roi = Zero

-----------------------------------------------------------------------------
(* extract_market_keywords and detect_arbitrage_opportunities              *)

\* a slip: the four rules chained with elif, so that only the first fires
extract_market_keywords_FirstRuleOnly(question, description) ==
    LET text == JoinedText(question, description)
    IN  IF Contains(text, <<"s", "p", "e", "n", "d", "i", "n", "g">>)
        THEN {"federal spending", "government spending", "expenditure", "budget"}
        ELSE IF \/ Contains(text, <<"f", "e", "d", " ", "r", "a", "t", "e">>)
                \/ Contains(text, <<"r", "a", "t", "e", " ", "h", "i", "k", "e">>)
                \/ Contains(text, <<"r", "a", "t", "e", " ", "c", "u", "t">>)
        THEN {"federal reserve", "interest rate", "monetary policy", "fed funds"}
        ELSE IF \/ Contains(text, <<"g", "d", "p">>)
                \/ Contains(text, <<"g", "r", "o", "s", "s", " ", "d", "o", "m", "e", "s", "t",
                                 "i", "c", " ", "p", "r", "o", "d", "u", "c", "t">>)
        THEN {"gdp", "gross domestic product", "economic growth"}
        ELSE IF Contains(text, <<"r", "e", "c", "e", "s", "s", "i", "o", "n">>)
        THEN {"recession", "economic downturn", "nber"}
        ELSE {}

\* the four trigger rules; the result is list(set(keywords)), read as a set
extract_market_keywords(question, description) ==
    LET text == JoinedText(question, description)
        spending ==
            IF \/ Contains(text, <<"f", "e", "d", "e", "r", "a", "l", " ", "s", "p", "e", "n",
                                 "d", "i", "n", "g">>)
               \/ Contains(text, <<"s", "p", "e", "n", "d", "i", "n", "g">>)
            THEN {"federal spending", "government spending", "expenditure", "budget"}
            ELSE {}
        fed_rate ==
            IF \/ Contains(text, <<"f", "e", "d", " ", "r", "a", "t", "e">>)
               \/ Contains(text, <<"r", "a", "t", "e", " ", "h", "i", "k", "e">>)
               \/ Contains(text, <<"r", "a", "t", "e", " ", "c", "u", "t">>)
            THEN {"federal reserve", "interest rate", "monetary policy", "fed funds"}
            ELSE {}
        gdp ==
            IF \/ Contains(text, <<"g", "d", "p">>)
               \/ Contains(text, <<"g", "r", "o", "s", "s", " ", "d", "o", "m", "e", "s", "t",
                                 "i", "c", " ", "p", "r", "o", "d", "u", "c", "t">>)
            THEN {"gdp", "gross domestic product", "economic growth"}
            ELSE {}
        recession ==
            IF Contains(text, <<"r", "e", "c", "e", "s", "s", "i", "o", "n">>)
            THEN {"recession", "economic downturn", "nber"}
            ELSE {}
    IN  spending \cup fed_rate \cup gdp \cup recession

\* floor(x) for a rational x
Floor(x) == x[1] \div x[2]

\* the two decimals "{relevance_score:.2f}" prints, in hundredths: the
\* nearest hundredth, a tie going to the even one
Hundredths(x) ==
    LET scaled == RMul(x, <<100, 1>>)
        low == Floor(scaled)
        rest == RSub(scaled, <<low, 1>>)
    IN  IF RLess(rest, Frac(1, 2)) THEN low
        ELSE IF RLess(Frac(1, 2), rest) THEN low + 1
        ELSE IF low % 2 = 0 THEN low ELSE low + 1

\* a slip: the time of the run written into the reason text
Opportunity_TimeInReason(market, source_url, relevance_score, now) ==
    [market_id |-> market.id,
     question |-> market.question.s,
     source_url |-> source_url,
     confidence |-> IF RLess(Frac(7, 10), relevance_score) THEN "high" ELSE "medium",
     relevance_score |-> relevance_score,
     reason |-> [source |-> source_url, score |-> Hundredths(relevance_score),
                 at |-> now],
     timestamp |-> [parseable |-> TRUE, at |-> now]]

\* a slip: a third confidence level for scores below one half
Opportunity_LowBelowHalf(market, source_url, relevance_score, now) ==
    [market_id |-> market.id,
     question |-> market.question.s,
     source_url |-> source_url,
     confidence |-> IF RLess(Frac(7, 10), relevance_score) THEN "high"
                    ELSE IF RLess(relevance_score, Frac(1, 2)) THEN "low"
                    ELSE "medium",
     relevance_score |-> relevance_score,
     reason |-> [source |-> source_url, score |-> Hundredths(relevance_score)],
     timestamp |-> [parseable |-> TRUE, at |-> now]]

\* the dict appended for one (market, source) pair
Opportunity(market, source_url, relevance_score, now) ==
    [market_id |-> market.id,
     question |-> market.question.s,
     source_url |-> source_url,
     confidence |-> IF RLess(Frac(7, 10), relevance_score) THEN "high" ELSE "medium",
     relevance_score |-> relevance_score,
     reason |-> [source |-> source_url, score |-> Hundredths(relevance_score)],
     timestamp |-> [parseable |-> TRUE, at |-> now]]

\* a slip: the threshold test written >= 0.3
RECURSIVE SourceLoop_FromThreshold(_, _, _, _, _)
SourceLoop_FromThreshold(market, market_keywords, sd, j, now) ==
    IF j > Len(sd) THEN <<>>
    ELSE LET relevance_score ==
                 calculate_relevance(sd[j].url, market_keywords, sd[j].info)
             found == IF /\ sd[j].info.status = "success"
                         /\ RLeq(Frac(3, 10), relevance_score)
                      THEN <<Opportunity(market, sd[j].url, relevance_score, now)>>
                      ELSE <<>>
         IN  found \o SourceLoop_FromThreshold(market, market_keywords, sd, j + 1, now)

\* the inner loop: the sources from the j-th on, in the dict's order
RECURSIVE SourceLoop(_, _, _, _, _)
SourceLoop(market, market_keywords, sd, j, now) ==
    IF j > Len(sd) THEN <<>>
    ELSE LET source_url == sd[j].url
             source_info == sd[j].info
             relevance_score ==
                 calculate_relevance(source_url, market_keywords, source_info)
             found == IF /\ source_info.status = "success"
                         /\ RLess(Frac(3, 10), relevance_score)
                      THEN <<Opportunity(market, source_url, relevance_score, now)>>
                      ELSE <<>>
         IN  found \o SourceLoop(market, market_keywords, sd, j + 1, now)

\* the outer loop: the markets from the i-th on; str + None raises
RECURSIVE MarketLoop(_, _, _, _, _)
MarketLoop(ms, i, sd, now, found) ==
    IF i > Len(ms) THEN Return(found)
    ELSE LET description == GetDescription(ms[i])
             domain == categorize_market_domain(ms[i].question, description)
         IN  IF domain.raised THEN domain
             ELSE IF domain.value # "economy"
             THEN MarketLoop(ms, i + 1, sd, now, found)
             ELSE MarketLoop(ms, i + 1, sd, now,
                      found \o SourceLoop(ms[i],
                                   extract_market_keywords(ms[i].question, description),
                                   sd, 1, now))

\* the list the function returns, or the exception it raises
DetectOpportunities(ms, sd, now) == MarketLoop(ms, 1, sd, now, <<>>)

-----------------------------------------------------------------------------
(* generate_trading_signals and what it calls                              *)

\* milliseconds of wall clock per tick of the model's clock
TickMs == 400

\* a slip: the trigger substrings looked up without lower-casing the URL
estimate_information_value_NoLower(opportunity) ==
    LET relevance_score == opportunity.relevance_score
        source_url == opportunity.source_url
    IN  IF RLess(Frac(7, 10), relevance_score) THEN TRUE
        ELSE IF RLess(relevance_score, Frac(3, 10)) THEN FALSE
        ELSE IF \/ Contains(source_url, <<"f", "e", "d">>)
                \/ Contains(source_url, <<"r", "a", "t", "e">>)
                \/ Contains(source_url, <<"i", "n", "f", "l", "a", "t", "i", "o", "n">>)
        THEN TRUE
        ELSE RLess(Frac(1, 2), relevance_score)

\* a slip: the branch for "fed", "rate" and "inflation" in the URL left out
estimate_information_value_NoTrigger(opportunity) ==
    LET relevance_score == opportunity.relevance_score
    IN  IF RLess(Frac(7, 10), relevance_score) THEN TRUE
        ELSE IF RLess(relevance_score, Frac(3, 10)) THEN FALSE
        ELSE RLess(Frac(1, 2), relevance_score)

estimate_information_value(opportunity) ==
    LET relevance_score == opportunity.relevance_score
        source_url == Lower(opportunity.source_url)
    IN  IF RLess(Frac(7, 10), relevance_score) THEN TRUE
        ELSE IF RLess(relevance_score, Frac(3, 10)) THEN FALSE
        ELSE IF \/ Contains(source_url, <<"f", "e", "d">>)
                \/ Contains(source_url, <<"r", "a", "t", "e">>)
                \/ Contains(source_url, <<"i", "n", "f", "l", "a", "t", "i", "o", "n">>)
        THEN TRUE
        ELSE RLess(Frac(1, 2), relevance_score)

\* sum(ord(c) for c in str(market_id))
RECURSIVE OrdSum(_)
OrdSum(s) == IF s = <<>> THEN 0 ELSE Ord(Head(s)) + OrdSum(Tail(s))

\* a slip: the entry for "low" left out of the dict
ConfidenceMultiplier_NoLow(confidence) ==
    IF confidence = "high" THEN Frac(12, 10) ELSE One

\* {"high": 1.2, "medium": 1.0, "low": 0.8}.get(confidence, 1.0)
ConfidenceMultiplier(confidence) ==
    IF confidence = "high" THEN Frac(12, 10)
    ELSE IF confidence = "low" THEN Frac(8, 10)
    ELSE One

estimate_polymarket_probability(opportunity) ==
    LET relevance_score == opportunity.relevance_score
        market_id == opportunity.market_id
        source_url == opportunity.source_url
        base == IF RLess(Frac(8, 10), relevance_score) THEN Frac(7, 10)
                ELSE IF RLess(relevance_score, Frac(3, 10)) THEN Frac(3, 10)
                ELSE Frac(1, 2)
        varied == IF market_id # <<>>
                  THEN RAdd(base, Frac((OrdSum(market_id) % 10) - 5, 100))
                  ELSE base
        fred == IF Contains(source_url, <<"f", "r", "e", "d">>)
                THEN RAdd(varied, Frac(3, 100)) ELSE varied
        bea == IF Contains(source_url, <<"b", "e", "a">>)
               THEN RSub(fred, Frac(2, 100)) ELSE fred
        federalreserve ==
            IF Contains(source_url, <<"f", "e", "d", "e", "r", "a", "l", "r", "e", "s", "e", "r",
                                    "v", "e">>)
            THEN RAdd(bea, Frac(1, 100)) ELSE bea
        nber == IF Contains(source_url, <<"n", "b", "e", "r">>)
                THEN RSub(federalreserve, Frac(1, 100)) ELSE federalreserve
        adjusted_prob == RMul(nber, ConfidenceMultiplier(opportunity.confidence))
    IN  RMax(Zero, RMin(One, adjusted_prob))

\* a slip: the entries for monitor and ignore left out of base_times
BaseTime_NoIdleEntries(action) ==
    IF action = "buy" THEN <<800, 1>>
    ELSE IF action = "sell" THEN <<600, 1>>
    ELSE <<500, 1>>

\* base_times.get(action, 500)
BaseTime(action) ==
    IF action = "buy" THEN <<800, 1>>
    ELSE IF action = "sell" THEN <<600, 1>>
    ELSE IF action \in {"monitor", "ignore"} THEN Zero
    ELSE <<500, 1>>

\* a slip: the two latency terms computed but not added
estimate_trade_execution_time_BaseOnly(action, polymarket_probability, relevance_score) ==
    LET by_probability ==
            IF RLess(Frac(8, 10), polymarket_probability)
            THEN RMul(BaseTime(action), Frac(8, 10))
            ELSE IF RLess(polymarket_probability, Frac(3, 10))
            THEN RMul(BaseTime(action), Frac(13, 10))
            ELSE BaseTime(action)
        base_time ==
            IF RLess(Frac(8, 10), relevance_score)
            THEN RMul(by_probability, Frac(9, 10))
            ELSE IF RLess(relevance_score, Frac(3, 10))
            THEN RMul(by_probability, Frac(12, 10))
            ELSE by_probability
        network_latency == RAdd(<<50, 1>>, RMul(relevance_score, <<100, 1>>))
        api_latency == RAdd(<<200, 1>>, RMul(polymarket_probability, <<300, 1>>))
    IN  RMax(Zero, base_time)

estimate_trade_execution_time(action, polymarket_probability, relevance_score) ==
    LET by_probability ==
            IF RLess(Frac(8, 10), polymarket_probability)
            THEN RMul(BaseTime(action), Frac(8, 10))
            ELSE IF RLess(polymarket_probability, Frac(3, 10))
            THEN RMul(BaseTime(action), Frac(13, 10))
            ELSE BaseTime(action)
        base_time ==
            IF RLess(Frac(8, 10), relevance_score)
            THEN RMul(by_probability, Frac(9, 10))
            ELSE IF RLess(relevance_score, Frac(3, 10))
            THEN RMul(by_probability, Frac(12, 10))
            ELSE by_probability
        network_latency == RAdd(<<50, 1>>, RMul(relevance_score, <<100, 1>>))
        api_latency == RAdd(<<200, 1>>, RMul(polymarket_probability, <<300, 1>>))
    IN  RMax(Zero, RAdd(RAdd(base_time, network_latency), api_latency))

\* a slip: the thresholds tested with < instead of <=
get_timing_grade_Exclusive(total_latency_ms) ==
    IF RLess(total_latency_ms, <<500, 1>>) THEN "A+"
    ELSE IF RLess(total_latency_ms, <<1000, 1>>) THEN "A"
    ELSE IF RLess(total_latency_ms, <<2000, 1>>) THEN "B"
    ELSE IF RLess(total_latency_ms, <<5000, 1>>) THEN "C"
    ELSE IF RLess(total_latency_ms, <<10000, 1>>) THEN "D"
    ELSE "F"

get_timing_grade(total_latency_ms) ==
    IF RLeq(total_latency_ms, <<500, 1>>) THEN "A+"
    ELSE IF RLeq(total_latency_ms, <<1000, 1>>) THEN "A"
    ELSE IF RLeq(total_latency_ms, <<2000, 1>>) THEN "B"
    ELSE IF RLeq(total_latency_ms, <<5000, 1>>) THEN "C"
    ELSE IF RLeq(total_latency_ms, <<10000, 1>>) THEN "D"
    ELSE "F"

\* abs(information_value - polymarket_probability), True counting as 1
Difference(information_value, polymarket_probability) ==
    LET d == RSub(IF information_value THEN One ELSE Zero, polymarket_probability)
    IN  IF RLess(d, Zero) THEN RSub(Zero, d) ELSE d

\* a slip: the test of information_value left out of the first branch
ActionFor_AlwaysBuy(information_value, polymarket_probability) ==
    LET difference == Difference(information_value, polymarket_probability)
    IN  IF RLess(Frac(1, 10), difference) THEN "buy"
        ELSE IF RLess(Frac(5, 100), difference) THEN "monitor"
        ELSE "ignore"

\* the if/elif/else that chooses the action
ActionFor(information_value, polymarket_probability) ==
    LET difference == Difference(information_value, polymarket_probability)
    IN  IF RLess(Frac(1, 10), difference)
        THEN (IF information_value THEN "buy" ELSE "sell")
        ELSE IF RLess(Frac(5, 100), difference) THEN "monitor"
        ELSE "ignore"

\* the dict built for one opportunity; now is the clock at signal time.  The
\* construction itself takes no tick, so signal_generation_time_ms is 0.
Signal(opp, now) ==
    LET relevance_score == opp.relevance_score
        information_value == estimate_information_value(opp)
        polymarket_probability == estimate_polymarket_probability(opp)
        roi_data == calculate_potential_roi(relevance_score,
                        Some(information_value), Some(polymarket_probability),
                        Frac(2, 100), Frac(11, 10), "open", TRUE)
        action == ActionFor(information_value, polymarket_probability)
        signal_generation_time == Zero
        reaction_time_ms ==
            IF opp.timestamp.parseable
            THEN <<(now - opp.timestamp.at) * TickMs, 1>>
            ELSE signal_generation_time
        estimated_execution_ms ==
            estimate_trade_execution_time(action, polymarket_probability,
                                          relevance_score)
        total_latency_ms == RAdd(reaction_time_ms, estimated_execution_ms)
    IN  [market_id |-> opp.market_id,
         action |-> action,
         confidence |-> opp.confidence,
         relevance_score |-> relevance_score,
         reason |-> opp.reason,
         timestamp |-> opp.timestamp,
         source |-> opp.source_url,
         potential_roi |-> roi_data.primary_roi,
         roi_v1 |-> roi_data.roi_v1,
         roi_v2 |-> roi_data.roi_v2,
         information_value |-> information_value,
         polymarket_probability |-> polymarket_probability,
         roi_details |-> roi_data,
         detection_time |-> opp.timestamp,
         signal_time |-> now,
         signal_generation_time_ms |-> signal_generation_time,
         reaction_time_ms |-> reaction_time_ms,
         estimated_execution_time_ms |-> estimated_execution_ms,
         total_latency_ms |-> total_latency_ms,
         timing_grade |-> get_timing_grade(total_latency_ms)]

\* a slip: the signals prepended instead of appended
GenerateSignals_Reversed(opps, now) ==
    [k \in 1..Len(opps) |-> Signal(opps[Len(opps) + 1 - k], now)]

\* one signal per opportunity, in order
GenerateSignals(opps, now) == [k \in 1..Len(opps) |-> Signal(opps[k], now)]

-----------------------------------------------------------------------------
(* backtest_strategy                                                       *)

\* sum(s.get(field, 0) for s in signals)
RECURSIVE SumField(_, _)
SumField(sigs, field) ==
    IF sigs = <<>> THEN Zero
    ELSE RAdd(Head(sigs)[field], SumField(Tail(sigs), field))

\* x / n if n > 0 else otherwise
GuardedMean(x, n, otherwise) ==
    IF n > 0 THEN RMul(x, Frac(1, n)) ELSE otherwise

\* a slip: high confidence read from the confidence field, not the action
BacktestSummary_ByConfidence(sigs) ==
    LET total_signals == Len(sigs)
        high_confidence_signals ==
            Cardinality({k \in 1..Len(sigs) : sigs[k].confidence = "high"})
        total_roi_v1 == SumField(sigs, "roi_v1")
        total_roi_v2 == SumField(sigs, "roi_v2")
        avg_roi_v1 == GuardedMean(total_roi_v1, total_signals, Zero)
        avg_roi_v2 == GuardedMean(total_roi_v2, total_signals, Zero)
        true_signals ==
            Cardinality({k \in 1..Len(sigs) : sigs[k].information_value})
    IN  [total_signals |-> total_signals,
         high_confidence_signals |-> high_confidence_signals,
         success_rate |-> IF high_confidence_signals > 0
                          THEN Frac(75, 100) ELSE Frac(50, 100),
         total_roi_v1 |-> total_roi_v1,
         total_roi_v2 |-> total_roi_v2,
         avg_roi_v1 |-> avg_roi_v1,
         avg_roi_v2 |-> avg_roi_v2,
         true_signals |-> true_signals,
         false_signals |-> total_signals - true_signals,
         avg_polymarket_probability |->
             GuardedMean(SumField(sigs, "polymarket_probability"),
                         total_signals, Frac(1, 2)),
         roi_improvement_v2 |-> IF RLess(Zero, avg_roi_v1)
                                THEN RSub(avg_roi_v2, avg_roi_v1) ELSE Zero]


\* the dict of the general path, lines 966 to 1000
BacktestSummary(sigs) ==
    LET total_signals == Len(sigs)
        high_confidence_signals ==
            Cardinality({k \in 1..Len(sigs) : sigs[k].action = "buy"})
        total_roi_v1 == SumField(sigs, "roi_v1")
        total_roi_v2 == SumField(sigs, "roi_v2")
        avg_roi_v1 == GuardedMean(total_roi_v1, total_signals, Zero)
        avg_roi_v2 == GuardedMean(total_roi_v2, total_signals, Zero)
        true_signals ==
            Cardinality({k \in 1..Len(sigs) : sigs[k].information_value})
    IN  [total_signals |-> total_signals,
         high_confidence_signals |-> high_confidence_signals,
         success_rate |-> IF high_confidence_signals > 0
                          THEN Frac(75, 100) ELSE Frac(50, 100),
         total_roi_v1 |-> total_roi_v1,
         total_roi_v2 |-> total_roi_v2,
         avg_roi_v1 |-> avg_roi_v1,
         avg_roi_v2 |-> avg_roi_v2,
         true_signals |-> true_signals,
         false_signals |-> total_signals - true_signals,
         avg_polymarket_probability |->
             GuardedMean(SumField(sigs, "polymarket_probability"),
                         total_signals, Frac(1, 2)),
         roi_improvement_v2 |-> IF RLess(Zero, avg_roi_v1)
                                THEN RSub(avg_roi_v2, avg_roi_v1) ELSE Zero]

\* a slip: the "if not signals" early return left out
backtest_strategy_NoEmptyCase(sigs) == BacktestSummary(sigs)

backtest_strategy(sigs) ==
    IF sigs = <<>>
    THEN [total_signals |-> 0,
          success_rate |-> Zero,
          total_roi_v1 |-> Zero,
          total_roi_v2 |-> Zero,
          avg_roi_v1 |-> Zero,
          avg_roi_v2 |-> Zero]
    ELSE BacktestSummary(sigs)

-----------------------------------------------------------------------------
(* The pipeline of main: detection, signals, backtest                      *)
(* markets and source_data are as the fetch and the monitoring loop left   *)
(* them; detector_runs keeps the inputs and the result of the last two      *)
(* detector runs.                                                          *)

\* ticks of the clock the model lets pass
MaxClock == 1

GdpMarket ==
    [id |-> <<"1", "0", "1">>,
     question |-> PyStr(NoSourceExample),
     has_description |-> TRUE, description |-> PyStr(<<>>)]

RecessionMarket ==
    [id |-> <<"1", "0", "2">>,
     question |-> PyStr(<<"R", "e", "c", "e", "s", "s", "i", "o", "n", " ", "a", "n",
                     "d", " ", "s", "p", "e", "n", "d", "i", "n", "g", "?">>),
     has_description |-> FALSE, description |-> PyStr(<<>>)]

ElectionMarket ==
    [id |-> <<"1", "0", "3">>,
     question |-> PyStr(<<"T", "r", "u", "m", "p", " ", "o", "n", " ", "G", "D", "P">>),
     has_description |-> TRUE, description |-> PyStr(<<>>)]

NullDescriptionMarket ==
    [id |-> <<"1", "0", "4">>,
     question |-> PyStr(NoSourceExample),
     has_description |-> TRUE, description |-> PyNone]

\* an economy market whose keywords are the spending bundle only
SpendingMarket ==
    [id |-> <<"1">>,
     question |-> PyStr(<<"F", "e", "d", "e", "r", "a", "l", " ", "s", "p", "e", "n",
                     "d", "i", "n", "g", " ", "u", "p", "?">>),
     has_description |-> TRUE, description |-> PyStr(<<>>)]

\* an economy market that triggers three of the four keyword rules
TripleMarket ==
    [id |-> <<"2">>,
     question |-> PyStr(<<"R", "e", "c", "e", "s", "s", "i", "o", "n", ",", " ", "G",
                     "D", "P", " ", "a", "n", "d", " ", "s", "p", "e", "n", "d",
                     "i", "n", "g", "?">>),
     has_description |-> TRUE, description |-> PyStr(<<>>)]

PipelineBatches ==
    { <<>>, <<GdpMarket>>, <<RecessionMarket>>,
      <<GdpMarket, RecessionMarket>>, <<RecessionMarket, GdpMarket>>,
      <<ElectionMarket, GdpMarket>>, <<GdpMarket, NullDescriptionMarket>> }

Probed(url, content_length) ==
    [url |-> url, info |-> [status |-> "success", content_length |-> content_length]]

Unreachable(url) == [url |-> url, info |-> [status |-> "error"]]

\* source_data as the loop of main builds it, in the order of the URL list
MainSourceData(fred) ==
    <<fred, Probed(FederalReserveUrl, 5000), Probed(BeaUrl, 5000),
      Probed(NberUrl, 5000)>>

\* dicts in insertion order; the last ones use hosts without "www."
PipelineSourceData ==
    { <<>>,
      MainSourceData(Probed(FredUrl, 5000)),
      MainSourceData(Probed(FredUrl, 500)),
      MainSourceData(Unreachable(FredUrl)),
      <<Probed(BareBeaUrl, 5000), Probed(FredUrl, 500)>>,
      <<Probed(FredUrl, 500), Probed(BareBeaUrl, 5000)>>,
      <<Probed(BareBeaUrl, 500), Unreachable(FredUrl)>>,
      <<Probed(BareNberUrl, 5000), Probed(FredUrl, 500)>> }

Init ==
    /\ op = "init"
    /\ args = <<>>
    /\ ret = NoCall
    /\ markets \in PipelineBatches
    /\ source_data \in PipelineSourceData
    /\ clock = 0
    /\ opportunities = <<>>
    /\ signals = <<>>
    /\ backtest_results = <<>>
    /\ db = <<>>
    /\ detector_runs = <<>>
    /\ pc = "call"

\* datetime.now() advances between calls
Tick ==
    /\ clock < MaxClock
    /\ clock' = clock + 1
    /\ op' = "tick"
    /\ UNCHANGED <<args, ret, markets, source_data, opportunities, signals,
                   backtest_results, db, detector_runs, pc>>

\* the run before this one, and this one
Remember(runs, run) ==
    IF runs = <<>> THEN <<run>> ELSE <<runs[Len(runs)], run>>

\* opportunities = detect_arbitrage_opportunities(markets, source_data)
detect_arbitrage_opportunities ==
    /\ op' = "detect_arbitrage_opportunities"
    /\ args' = [markets |-> markets, source_data |-> source_data]
    /\ ret' = DetectOpportunities(markets, source_data, clock)
    /\ opportunities' = IF ret'.raised THEN opportunities ELSE ret'.value
    /\ detector_runs' = Remember(detector_runs,
                                 [markets |-> markets,
                                  source_data |-> source_data,
                                  result |-> ret'])
    /\ UNCHANGED <<markets, source_data, clock, signals, backtest_results, db, pc>>

\* signals = generate_trading_signals(opportunities)
generate_trading_signals ==
    /\ op' = "generate_trading_signals"
    /\ args' = [opportunities |-> opportunities]
    /\ signals' = GenerateSignals(opportunities, clock)
    /\ ret' = Return(signals')
    /\ UNCHANGED <<markets, source_data, clock, opportunities,
                   backtest_results, db, detector_runs, pc>>

\* backtest_results = backtest_strategy(signals)
CallBacktestStrategy ==
    /\ op' = "backtest_strategy"
    /\ args' = [signals |-> signals]
    /\ backtest_results' = backtest_strategy(signals)
    /\ ret' = Return(backtest_results')
    /\ UNCHANGED <<markets, source_data, clock, opportunities, signals, db,
                   detector_runs, pc>>

Next ==
    \/ Tick
    \/ detect_arbitrage_opportunities
    \/ generate_trading_signals
    \/ CallBacktestStrategy

Spec == Init /\ [][Next]_vars

-----------------------------------------------------------------------------
(* Properties of the pipeline                                              *)

\* an opportunity without its timestamp
WithoutTimestamp(opp) == [f \in (DOMAIN opp) \ {"timestamp"} |-> opp[f]]

\* two results equal in outcome, length, order and every field but timestamp
SameButTimestamp(a, b) ==
    /\ a.raised = b.raised
    /\ IF a.raised THEN a.value = b.value
       ELSE /\ Len(a.value) = Len(b.value)
            /\ \A k \in 1..Len(a.value) :
                   WithoutTimestamp(a.value[k]) = WithoutTimestamp(b.value[k])

SameInputs(a, b) == a.markets = b.markets /\ a.source_data = b.source_data

CountFields ==
    {"total_signals", "high_confidence_signals", "true_signals", "false_signals"}

AllZero(summary) ==
    \A f \in DOMAIN summary :
        IF f \in CountFields THEN summary[f] = 0 ELSE summary[f] = Zero

\* C10: backtest_strategy on an empty signal batch returns without an
\* exception a summary whose fields are all zero; the summary is the literal
\* of the early return, which precedes every division of the function.
C10_EmptyBatchAllZero ==
    (op = "backtest_strategy" /\ args.signals = <<>>)
        => /\ ~ret.raised
           /\ "total_signals" \in DOMAIN ret.value
           /\ AllZero(ret.value)
           /\ backtest_results = ret.value

\* a backtest of the empty batch left by a detector run that found nothing
C10_Witness ==
    /\ op = "backtest_strategy"
    /\ args.signals = <<>>
    /\ Len(detector_runs) > 0
    /\ opportunities = <<>>
    /\ ret.value.total_signals = 0

\* whether the pair is one the detector reports: an economy market, a probe
\* that succeeded, a relevance above 0.3
EmitsFor(market, entry) ==
    LET description == GetDescription(market)
        domain == categorize_market_domain(market.question, description)
    IN  /\ ~domain.raised
        /\ domain.value = "economy"
        /\ entry.info.status = "success"
        /\ RLess(Frac(3, 10),
                 calculate_relevance(entry.url,
                     extract_market_keywords(market.question, description),
                     entry.info))

\* the (market, source) index pairs, markets outermost, in list order
Pairs(ms, sd) ==
    [k \in 1..(Len(ms) * Len(sd)) |->
        [i |-> ((k - 1) \div Len(sd)) + 1, j |-> ((k - 1) % Len(sd)) + 1]]

ExpectedPairs(ms, sd) ==
    SelectSeq(Pairs(ms, sd), LAMBDA p : EmitsFor(ms[p.i], sd[p.j]))

\* C11: the detector reports a (market, source) pair if and only if the
\* market is classified economy, the probe has status success and the
\* relevance of the pair is strictly greater than 0.3; a relevance of exactly
\* 0.3 reports nothing, and no market of another domain is ever reported.
C11_EmitIffEconomySuccessAboveThreshold ==
    (op = "detect_arbitrage_opportunities" /\ ~ret.raised) =>
        LET expected == ExpectedPairs(args.markets, args.source_data)
        IN  /\ Len(ret.value) = Len(expected)
            /\ \A k \in 1..Len(expected) :
                  /\ ret.value[k].market_id = args.markets[expected[k].i].id
                  /\ ret.value[k].source_url = args.source_data[expected[k].j].url
            /\ \A k \in 1..Len(ret.value) :
                  RLess(Frac(3, 10), ret.value[k].relevance_score)

\* a run that reported one pair and left out an economy market whose
\* relevance for a successful probe is exactly 0.3
C11_Witness ==
    /\ op = "detect_arbitrage_opportunities"
    /\ ~ret.raised
    /\ Len(ret.value) = 1
    /\ \E i \in 1..Len(args.markets), j \in 1..Len(args.source_data) :
          /\ args.source_data[j].info.status = "success"
          /\ categorize_market_domain(args.markets[i].question,
                 GetDescription(args.markets[i])).value = "economy"
          /\ calculate_relevance(args.source_data[j].url,
                 extract_market_keywords(args.markets[i].question,
                                         GetDescription(args.markets[i])),
                 args.source_data[j].info) = Frac(3, 10)

\* C12: generate_trading_signals returns one signal per opportunity, in the
\* same order, each with the market_id, relevance_score, confidence and
\* source URL of its opportunity; the opportunities are left as they were.
C12_OneSignalPerOpportunity ==
    /\ [](op = "generate_trading_signals" =>
            /\ Len(ret.value) = Len(args.opportunities)
            /\ \A k \in 1..Len(ret.value) :
                  /\ ret.value[k].market_id = args.opportunities[k].market_id
                  /\ ret.value[k].relevance_score
                         = args.opportunities[k].relevance_score
                  /\ ret.value[k].confidence = args.opportunities[k].confidence
                  /\ ret.value[k].source = args.opportunities[k].source_url)
    /\ [][op' = "generate_trading_signals"
              => /\ opportunities' = opportunities
                 /\ args'.opportunities = opportunities]_vars

\* signals generated from two opportunities of different markets
C12_Witness ==
    /\ op = "generate_trading_signals"
    /\ Len(ret.value) = 2
    /\ ret.value[1].market_id # ret.value[2].market_id
    /\ ret.value[1].relevance_score # ret.value[2].relevance_score

\* C16: every reported opportunity has confidence "high" if and only if its
\* relevance_score is strictly greater than 0.7 and "medium" otherwise, never
\* another value.
C16_ConfidenceByRelevance ==
    (op = "detect_arbitrage_opportunities" /\ ~ret.raised) =>
        \A k \in 1..Len(ret.value) :
            /\ ret.value[k].confidence \in {"high", "medium"}
            /\ ret.value[k].confidence = "high"
                   <=> RLess(Frac(7, 10), ret.value[k].relevance_score)

\* a run that reported a high and a medium opportunity
C16_Witness ==
    /\ op = "detect_arbitrage_opportunities"
    /\ ~ret.raised
    /\ \E k \in 1..Len(ret.value) : ret.value[k].confidence = "high"
    /\ \E k \in 1..Len(ret.value) :
          /\ ret.value[k].confidence = "medium"
          /\ RLess(ret.value[k].relevance_score, Frac(1, 2))

\* the V2 formula with fee 0.02, time factor 1.1 and an open market
SignalRoiV2(information_value, p) ==
    LET scaled == RMin(One, RMax(Zero, RMul(Frac(11, 10), p)))
    IN  IF information_value
        THEN RMax(Zero, RSub(RSub(One, scaled), Frac(2, 100)))
        ELSE RMax(Zero, RSub(scaled, Frac(2, 100)))

\* the V1 formula with fee 0.02
SignalRoiV1(information_value, p) ==
    IF information_value
    THEN RMax(Zero, RSub(RSub(One, p), Frac(2, 100)))
    ELSE RMax(Zero, RSub(p, Frac(2, 100)))

-----------------------------------------------------------------------------
(* SpecEstimate: the two estimators called on one opportunity              *)

\* a URL whose trigger substring is in upper case
UpperRateUrl ==
    <<"h", "t", "t", "p", "s", ":", "/", "/", "x", ".", "o", "r",
    "g", "/", "R", "A", "T", "E">>

\* a URL with "FRED" in upper case and "bea" in lower case
UpperFredUrl ==
    <<"h", "t", "t", "p", "s", ":", "/", "/", "F", "R", "E", "D",
    ".", "o", "r", "g", "/", "b", "e", "a">>

EstimateUrls ==
    {FredUrl, FederalReserveUrl, BareBeaUrl, NberUrl, UnknownUrl,
     UpperRateUrl, UpperFredUrl}

EstimateScores ==
    {Zero, Frac(29, 100), Frac(3, 10), Frac(1, 2), Frac(51, 100), Frac(7, 10),
     Frac(71, 100), Frac(8, 10), Frac(81, 100), One}

\* str(market_id): absent or empty, and ids with checksums 6, 6, 0 and 9 mod 10
EstimateIds ==
    {<<>>, <<"1", "0", "1">>, <<"1", "9">>, <<"2">>, <<"1">>}

InitEstimate ==
    /\ op = "init"
    /\ args \in [relevance_score : EstimateScores,
                 source_url : EstimateUrls,
                 market_id : EstimateIds,
                 confidence : {"high", "medium", "low"}]
    /\ ret = NoCall
    /\ markets = <<>>
    /\ source_data = <<>>
    /\ clock = 0
    /\ opportunities = <<>>
    /\ signals = <<>>
    /\ backtest_results = <<>>
    /\ db = <<>>
    /\ detector_runs = <<>>
    /\ pc = "call"

CallEstimateInformationValue ==
    /\ op = "init"
    /\ op' = "estimate_information_value"
    /\ ret' = Return(estimate_information_value(args))
    /\ UNCHANGED <<args, pipeline_vars>>

CallEstimatePolymarketProbability ==
    /\ op = "init"
    /\ op' = "estimate_polymarket_probability"
    /\ ret' = Return(estimate_polymarket_probability(args))
    /\ UNCHANGED <<args, pipeline_vars>>

NextEstimate ==
    \/ CallEstimateInformationValue
    \/ CallEstimatePolymarketProbability

SpecEstimate == InitEstimate /\ [][NextEstimate]_vars

\* whether the lower-cased URL contains "fed", "rate" or "inflation"
HasTrigger(url) ==
    \E w \in {<<"f", "e", "d">>, <<"r", "a", "t", "e">>,
              <<"i", "n", "f", "l", "a", "t", "i", "o", "n">>} :
        Contains(Lower(url), w)

\* C17: estimate_information_value returns true when relevance_score > 0.7,
\* false when relevance_score < 0.3, and for 0.3 <= relevance_score <= 0.7
\* true if the lower-cased source URL contains "fed", "rate" or "inflation",
\* otherwise (relevance_score > 0.5).
C17_InformationValue ==
    op = "estimate_information_value" =>
        LET r == args.relevance_score
        IN  /\ RLess(Frac(7, 10), r) => ret.value = TRUE
            /\ RLess(r, Frac(3, 10)) => ret.value = FALSE
            /\ (RLeq(Frac(3, 10), r) /\ RLeq(r, Frac(7, 10))) =>
                  ret.value = (HasTrigger(args.source_url)
                                  \/ RLess(Frac(1, 2), r))

\* a middle score of at most 0.5 made true by an upper-case trigger alone
C17_Witness ==
    /\ op = "estimate_information_value"
    /\ args.relevance_score = Frac(1, 2)
    /\ args.source_url = UpperRateUrl
    /\ ret.value = TRUE

\* base: 0.7 above a relevance of 0.8, 0.3 below 0.3, else 0.5
ProbabilityBase(r) ==
    IF RLess(Frac(8, 10), r) THEN Frac(7, 10)
    ELSE IF RLess(r, Frac(3, 10)) THEN Frac(3, 10)
    ELSE Frac(1, 2)

\* the cumulative source adjustments of a URL
SourceAdjustment(url) ==
    LET fred == IF Contains(url, <<"f", "r", "e", "d">>) THEN Frac(3, 100) ELSE Zero
        bea == IF Contains(url, <<"b", "e", "a">>) THEN Frac(-2, 100) ELSE Zero
        federalreserve ==
            IF Contains(url, <<"f", "e", "d", "e", "r", "a", "l", "r", "e", "s", "e", "r", "v", "e">>)
            THEN Frac(1, 100) ELSE Zero
        nber == IF Contains(url, <<"n", "b", "e", "r">>) THEN Frac(-1, 100) ELSE Zero
    IN  RAdd(RAdd(fred, bea), RAdd(federalreserve, nber))

\* 1.2, 1.0 and 0.8 for high, medium and low
ClaimedMultiplier(confidence) ==
    CASE confidence = "high" -> Frac(12, 10)
      [] confidence = "medium" -> One
      [] confidence = "low" -> Frac(8, 10)

\* (sum of the character codes mod 10, less 5) hundredths
ChecksumPerturbation(market_id) == Frac((OrdSum(market_id) % 10) - 5, 100)

\* clamp to [0,1] of (base + perturbation + adjustments) x multiplier
ClaimedProbability(opp, perturbation) ==
    RMax(Zero, RMin(One,
        RMul(RAdd(RAdd(ProbabilityBase(opp.relevance_score), perturbation),
                  SourceAdjustment(opp.source_url)),
             ClaimedMultiplier(opp.confidence))))

SameChecksum(a, b) == OrdSum(a) % 10 = OrdSum(b) % 10

\* C18 as stated: the probability is the clamped (base + perturbation +
\* source adjustments) x multiplier with a perturbation that depends only on
\* the id's checksum mod 10, so that ids with the same checksum mod 10 give
\* the same probability.
C18_PerturbationByChecksumOnly ==
    op = "estimate_polymarket_probability" =>
        /\ ret.value = ClaimedProbability(args, ChecksumPerturbation(args.market_id))
        /\ \A other \in EstimateIds :
              SameChecksum(other, args.market_id) =>
                  estimate_polymarket_probability(
                      [args EXCEPT !.market_id = other]) = ret.value

\* C18 amended: the perturbation is 0 for an absent or empty market id and
\* otherwise ((checksum mod 10) - 5) / 100, of magnitude at most 0.05; the
\* result is the clamped (base + perturbation + adjustments) x multiplier, it
\* lies in [0,1], and two non-empty ids with the same checksum mod 10 give
\* the same probability.
C18_ProbabilityFormula ==
    op = "estimate_polymarket_probability" =>
        LET perturbation == IF args.market_id = <<>> THEN Zero
                            ELSE ChecksumPerturbation(args.market_id)
        IN  /\ ret.value = ClaimedProbability(args, perturbation)
            /\ RLeq(Frac(-5, 100), perturbation)
            /\ RLeq(perturbation, Frac(5, 100))
            /\ RLeq(Zero, ret.value)
            /\ RLeq(ret.value, One)
            /\ \A other \in EstimateIds \ {<<>>} :
                  (args.market_id # <<>> /\ SameChecksum(other, args.market_id))
                      => estimate_polymarket_probability(
                             [args EXCEPT !.market_id = other]) = ret.value

\* a low-confidence opportunity on FRED whose id shares its checksum mod 10
\* with another id of the input set
C18_Witness ==
    /\ op = "estimate_polymarket_probability"
    /\ args.market_id = <<"1", "0", "1">>
    /\ SameChecksum(<<"1", "9">>, args.market_id)
    /\ args.confidence = "low"
    /\ args.source_url = FredUrl
    /\ args.relevance_score = Frac(81, 100)
    /\ ret.value = Frac(592, 1000)

-----------------------------------------------------------------------------
(* The default time factor of the V2 computation                           *)

\* the V2 value for a market that is not closed, written out for a factor
RoiV2With(information_value, p, fee, factor) ==
    LET scaled == RMax(Zero, RMin(One, RMul(p, factor)))
    IN  IF information_value
        THEN RMax(Zero, RSub(RSub(One, scaled), fee))
        ELSE RMax(Zero, RSub(scaled, fee))

\* the V2 value a call returned, for both entry points
ReturnedRoiV2 ==
    IF op = "calculate_potential_roi_v2" THEN ret.value ELSE ret.value.roi_v2

\* a V2 call on a market that is not closed, made without time_factor
DefaultedV2Call ==
    /\ op \in {"calculate_potential_roi_v2", "calculate_potential_roi"}
    /\ args.time_factor.none
    /\ args.market_status # "closed"

\* C20 as stated: when the caller does not supply time_factor, the V2
\* computation scales the probability by 1.1 before clamping.
C20_DefaultTimeFactorElevenTenths ==
    DefaultedV2Call =>
        ReturnedRoiV2 = RoiV2With(args.information_value,
                                  args.polymarket_probability,
                                  args.polymarket_fee, Frac(11, 10))

\* C20 amended: when the caller does not supply time_factor, the V2
\* computation (calculate_potential_roi_v2, and calculate_potential_roi which
\* forwards to it) uses the default 1.0, that is, clamps the probability
\* unscaled; 1.1 is used only where a caller passes it.
C20_DefaultTimeFactorOne ==
    DefaultedV2Call =>
        ReturnedRoiV2 = RoiV2With(args.information_value,
                                  args.polymarket_probability,
                                  args.polymarket_fee, One)

\* V2 without time_factor on (true, 0.7, 0.02, open): 0.28, not 0.21
C20_Witness ==
    /\ op = "calculate_potential_roi_v2"
    /\ args.time_factor.none
    /\ args.market_status = "open"
    /\ args.information_value
    /\ args.polymarket_probability = Frac(7, 10)
    /\ args.polymarket_fee = Frac(2, 100)
    /\ ret.value = Frac(28, 100)

-----------------------------------------------------------------------------
(* monitor_resolution_source                                               *)

\* the keyword list chosen by the first host name the URL contains
get_source_keywords(source_url) ==
    IF Contains(source_url, <<"f", "r", "e", "d", ".", "s", "t", "l", "o", "u", "i", "s",
                            "f", "e", "d", ".", "o", "r", "g">>)
    THEN <<"federal spending", "government spending", "expenditure", "budget",
           "fiscal">>
    ELSE IF Contains(source_url, <<"f", "e", "d", "e", "r", "a", "l", "r", "e", "s", "e", "r",
                                 "v", "e", ".", "g", "o", "v">>)
    THEN <<"federal reserve", "interest rate", "monetary policy", "fed funds",
           "rate hike", "rate cut">>
    ELSE IF Contains(source_url, <<"b", "e", "a", ".", "g", "o", "v">>)
    THEN <<"gdp", "gross domestic product", "economic growth", "quarterly",
           "annual">>
    ELSE IF Contains(source_url, <<"n", "b", "e", "r", ".", "o", "r", "g">>)
    THEN <<"recession", "economic downturn", "business cycle", "nber",
           "downturn">>
    ELSE <<"economy", "economic", "financial", "market">>

\* what requests.get and raise_for_status can do: a page, or an exception.
\* A page is described by its length and by what detect_keyword_with_negation
\* finds for the first keyword of the list ("none", "affirmed" or "negated").
HttpOutcomes ==
    [kind : {"ok"}, content_length : {500, 5000},
     mention : {"none", "affirmed", "negated"}]
        \cup [kind : {"ConnectionError", "Timeout", "HTTPError"}]

\* the (keyword, status) pairs collected under "if keywords:"
FoundKeywords(keywords, response) ==
    IF keywords # <<>> /\ response.mention # "none"
    THEN << <<keywords[1], response.mention>> >>
    ELSE <<>>

\* the dict of the except branch
ErrorProbe(url, response) ==
    [url |-> url, status |-> "error", error |-> response.kind,
     has_changes |-> FALSE]

\* the dict of the try branch
SuccessProbe(url, keywords, response) ==
    LET found_keywords == FoundKeywords(keywords, response)
    IN  [url |-> url,
         status |-> "success",
         content_length |-> response.content_length,
         found_keywords |-> found_keywords,
         has_changes |-> \E k \in 1..Len(found_keywords) :
                             found_keywords[k][2] = "affirmed"]

\* a slip: raise_for_status called before the try block
monitor_resolution_source_StatusOutsideTry(url, keywords, response) ==
    IF response.kind = "HTTPError" THEN Raise("HTTPError")
    ELSE IF response.kind = "ok" THEN Return(SuccessProbe(url, keywords, response))
    ELSE Return(ErrorProbe(url, response))

\* fetch_duration, a measured time no operation reads, is left out
monitor_resolution_source(url, keywords, response) ==
    IF response.kind = "ok"
    THEN Return(SuccessProbe(url, keywords, response))
    ELSE Return(ErrorProbe(url, response))

\* source_data[source] = result: a new key goes last, a known key keeps its place
SetProbe(sd, url, info) ==
    IF \E k \in 1..Len(sd) : sd[k].url = url
    THEN [k \in 1..Len(sd) |-> IF sd[k].url = url
                               THEN [url |-> url, info |-> info] ELSE sd[k]]
    ELSE Append(sd, [url |-> url, info |-> info])

-----------------------------------------------------------------------------
(* SpecMonitor: sources are probed one by one, then the detector runs      *)

\* probes a run makes at most
MaxProbes == 2

MonitoredUrls == {FredUrl, BareBeaUrl, BareNberUrl}

MonitorBatches ==
    { <<GdpMarket, RecessionMarket>>, <<RecessionMarket>>,
      <<ElectionMarket, GdpMarket>> }

InitMonitor ==
    /\ op = "init"
    /\ args = <<>>
    /\ ret = NoCall
    /\ markets \in MonitorBatches
    /\ source_data = <<>>
    /\ clock = 0
    /\ opportunities = <<>>
    /\ signals = <<>>
    /\ backtest_results = <<>>
    /\ db = <<>>
    /\ detector_runs = <<>>
    /\ pc = "monitor"

\* result = monitor_resolution_source(source, keywords);
\* source_data[source] = result
MonitorSource ==
    /\ pc = "monitor"
    /\ \E url \in MonitoredUrls, response \in HttpOutcomes :
          /\ \/ Len(source_data) < MaxProbes
             \/ \E k \in 1..Len(source_data) : source_data[k].url = url
          /\ op' = "monitor_resolution_source"
          /\ args' = [url |-> url, response |-> response]
          /\ ret' = monitor_resolution_source(url, get_source_keywords(url), response)
          /\ IF ret'.raised
             THEN source_data' = source_data /\ pc' = "aborted"
             ELSE source_data' = SetProbe(source_data, url, ret'.value)
                     /\ pc' = "monitor"
    /\ UNCHANGED <<markets, clock, opportunities, signals, backtest_results,
                   db, detector_runs>>

\* opportunities = detect_arbitrage_opportunities(markets, source_data)
DetectProbed ==
    /\ pc = "monitor"
    /\ op' = "detect_arbitrage_opportunities"
    /\ args' = [markets |-> markets, source_data |-> source_data]
    /\ ret' = DetectOpportunities(markets, source_data, clock)
    /\ opportunities' = IF ret'.raised THEN opportunities ELSE ret'.value
    /\ pc' = IF ret'.raised THEN "aborted" ELSE "detected"
    /\ UNCHANGED <<markets, source_data, clock, signals, backtest_results, db,
                   detector_runs>>

NextMonitor == MonitorSource \/ DetectProbed

SpecMonitor == InitMonitor /\ [][NextMonitor]_vars

\* the probes that succeeded, in their order
Succeeded(sd) == SelectSeq(sd, LAMBDA e : e.info.status = "success")

\* C13: a failure while probing never raises out of
\* monitor_resolution_source but yields a probe with status "error"; such a
\* probe contributes no opportunity, and the detector reports for the other
\* sources and for every market what it reports without the failed probes.
C13_FailedProbeIsSkipped ==
    /\ op = "monitor_resolution_source" =>
          /\ ~ret.raised
          /\ pc # "aborted"
          /\ ret.value.status = (IF args.response.kind = "ok"
                                 THEN "success" ELSE "error")
          /\ \E k \in 1..Len(source_data) :
                source_data[k] = [url |-> args.url, info |-> ret.value]
    /\ op = "detect_arbitrage_opportunities" =>
          /\ ~ret.raised
          /\ \A k \in 1..Len(ret.value), j \in 1..Len(source_data) :
                source_data[j].info.status = "error"
                    => ret.value[k].source_url # source_data[j].url
          /\ ret.value
                = DetectOpportunities(markets, Succeeded(source_data), clock).value

\* a detector run after a failed first probe and a successful second one
\* that still reports an opportunity for the second source
C13_Witness ==
    /\ op = "detect_arbitrage_opportunities"
    /\ Len(source_data) = 2
    /\ source_data[1].info.status = "error"
    /\ source_data[2].info.status = "success"
    /\ \E k \in 1..Len(ret.value) : ret.value[k].source_url = source_data[2].url

-----------------------------------------------------------------------------
(* SpecMain: one run of main, phase by phase                               *)
(* pc names the statement main is about to run; "aborted" is main ended by *)
(* an exception nothing caught, "done" is the report printed.              *)

MainBatches ==
    { <<>>, <<GdpMarket, RecessionMarket>>, <<ElectionMarket, GdpMarket>>,
      <<GdpMarket, NullDescriptionMarket>>, <<SpendingMarket, TripleMarket>> }

\* what the feed request can do: a payload that is the list of markets, or
\* an exception from requests.get or raise_for_status
FeedOutcomes ==
    [kind : {"ok"}, markets : MainBatches]
        \cup [kind : {"ConnectionError", "Timeout", "HTTPError"}]

\* no try block: what requests raises leaves the function
fetch_open_markets(response) ==
    IF response.kind = "ok" THEN Return(response.markets)
    ELSE Raise(response.kind)

\* the outcomes of a probe that a run of main is checked with
MainHttpOutcomes ==
    { [kind |-> "ok", content_length |-> 5000, mention |-> "none"],
      [kind |-> "ok", content_length |-> 500, mention |-> "affirmed"],
      [kind |-> "Timeout"] }

\* market.get("description", "") or ""
DescriptionOrEmpty(market) ==
    LET d == GetDescription(market)
    IN  IF d.none THEN PyStr(<<>>) ELSE d

\* the listing loop: the domain printed for each market
RECURSIVE ListingLoop(_, _, _)
ListingLoop(ms, i, printed) ==
    IF i > Len(ms) THEN Return(printed)
    ELSE LET description == DescriptionOrEmpty(ms[i])
             c == categorize_market_domain(ms[i].question, description)
         IN  IF c.raised THEN c
             ELSE LET r == extract_resolution_source(description)
                  IN  IF r.raised THEN r
                      ELSE ListingLoop(ms, i + 1, Append(printed, c.value))

\* the keys of backtest_results that the report prints
ReportedKeys ==
    {"total_signals", "high_confidence_signals", "success_rate",
     "total_roi_v1", "avg_roi_v1"}

InitMain ==
    /\ op = "init"
    /\ args = <<>>
    /\ ret = NoCall
    /\ markets = <<>>
    /\ source_data = <<>>
    /\ clock = 0
    /\ opportunities = <<>>
    /\ signals = <<>>
    /\ backtest_results = <<>>
    /\ db = <<>>
    /\ detector_runs = <<>>
    /\ pc = "fetch"

\* markets = fetch_open_markets()
MainFetch ==
    /\ pc = "fetch"
    /\ \E response \in FeedOutcomes :
          /\ op' = "fetch_open_markets"
          /\ args' = response
          /\ ret' = fetch_open_markets(response)
          /\ IF ret'.raised
             THEN markets' = markets /\ pc' = "aborted"
             ELSE markets' = ret'.value /\ pc' = "analyze"
    /\ UNCHANGED <<source_data, clock, opportunities, signals,
                   backtest_results, db, detector_runs>>

\* patterns = analyze_resolution_patterns(markets)
MainAnalyze ==
    /\ pc = "analyze"
    /\ op' = "analyze_resolution_patterns"
    /\ args' = [markets |-> markets]
    /\ ret' = analyze_resolution_patterns(markets)
    /\ pc' = IF ret'.raised THEN "aborted" ELSE "listing"
    /\ UNCHANGED <<markets, source_data, clock, opportunities, signals,
                   backtest_results, db, detector_runs>>

\* for market in markets: print domain and resolution source
MainListing ==
    /\ pc = "listing"
    /\ op' = "listing"
    /\ args' = [markets |-> markets]
    /\ ret' = ListingLoop(markets, 1, <<>>)
    /\ pc' = IF ret'.raised THEN "aborted" ELSE "save"
    /\ UNCHANGED <<markets, source_data, clock, opportunities, signals,
                   backtest_results, db, detector_runs>>

\* try: db.save_markets(markets) ... except Exception: print
MainSave ==
    /\ pc = "save"
    /\ op' = "save_markets"
    /\ args' = [markets |-> markets]
    /\ LET r == SaveLoop(markets, 1, db)
       IN  IF r.raised
           THEN ret' = r /\ db' = db
           ELSE ret' = Return(PyNone) /\ db' = r.value
    /\ pc' = "monitor"
    /\ UNCHANGED <<markets, source_data, clock, opportunities, signals,
                   backtest_results, detector_runs>>

\* for source in economy_sources: source_data[source] = monitor_resolution_source(...)
MainMonitor ==
    /\ pc = "monitor"
    /\ Len(source_data) < Len(get_economy_resolution_sources)
    /\ LET url == get_economy_resolution_sources[Len(source_data) + 1]
       IN  \E response \in MainHttpOutcomes :
              /\ op' = "monitor_resolution_source"
              /\ args' = [url |-> url, response |-> response]
              /\ ret' = monitor_resolution_source(url, get_source_keywords(url), response)
              /\ IF ret'.raised
                 THEN source_data' = source_data /\ pc' = "aborted"
                 ELSE /\ source_data' = SetProbe(source_data, url, ret'.value)
                      /\ pc' = IF Len(source_data') = Len(get_economy_resolution_sources)
                               THEN "detect" ELSE "monitor"
    /\ UNCHANGED <<markets, clock, opportunities, signals, backtest_results,
                   db, detector_runs>>

\* opportunities = detect_arbitrage_opportunities(markets, source_data)
MainDetect ==
    /\ pc = "detect"
    /\ op' = "detect_arbitrage_opportunities"
    /\ args' = [markets |-> markets, source_data |-> source_data]
    /\ ret' = DetectOpportunities(markets, source_data, clock)
    /\ opportunities' = IF ret'.raised THEN opportunities ELSE ret'.value
    /\ pc' = IF ret'.raised THEN "aborted" ELSE "signals"
    /\ UNCHANGED <<markets, source_data, clock, signals, backtest_results, db,
                   detector_runs>>

\* signals = generate_trading_signals(opportunities)
MainSignals ==
    /\ pc = "signals"
    /\ op' = "generate_trading_signals"
    /\ args' = [opportunities |-> opportunities]
    /\ signals' = GenerateSignals(opportunities, clock)
    /\ ret' = Return(signals')
    /\ pc' = "backtest"
    /\ UNCHANGED <<markets, source_data, clock, opportunities,
                   backtest_results, db, detector_runs>>

\* backtest_results = backtest_strategy(signals)
MainBacktest ==
    /\ pc = "backtest"
    /\ op' = "backtest_strategy"
    /\ args' = [signals |-> signals]
    /\ backtest_results' = backtest_strategy(signals)
    /\ ret' = Return(backtest_results')
    /\ pc' = "report"
    /\ UNCHANGED <<markets, source_data, clock, opportunities, signals, db,
                   detector_runs>>

\* the prints of backtest_results['total_signals'] and the keys after it
MainReport ==
    /\ pc = "report"
    /\ op' = "report"
    /\ args' = [backtest_results |-> backtest_results]
    /\ IF ReportedKeys \subseteq DOMAIN backtest_results
       THEN ret' = Return(PyNone) /\ pc' = "done"
       ELSE ret' = Raise("KeyError") /\ pc' = "aborted"
    /\ UNCHANGED <<markets, source_data, clock, opportunities, signals,
                   backtest_results, db, detector_runs>>

NextMain ==
    \/ MainFetch
    \/ MainAnalyze
    \/ MainListing
    \/ MainSave
    \/ MainMonitor
    \/ MainDetect
    \/ MainSignals
    \/ MainBacktest
    \/ MainReport

SpecMain == InitMain /\ [][NextMain]_vars

\* the feed request of this fetch failed
FeedFailed == op = "fetch_open_markets" /\ args.kind # "ok"

\* C14: a failure of the market-feed fetch is caught at the feed boundary
\* and surfaces as an empty market list, and main goes on to its next phase
\* instead of aborting.
C14_FeedFailureIsNonFatal ==
    FeedFailed => /\ ~ret.raised
                  /\ ret.value = <<>>
                  /\ pc = "analyze"

-----------------------------------------------------------------------------
(* SpecMonitoring: setup_continuous_monitoring                              *)
(* pc is the statement of the loop "while True: schedule.run_pending();    *)
(* time.sleep(1)" that runs next; clock counts the seconds slept since the *)
(* job last ran; markets, source_data and opportunities show the locals of *)
(* the last cycle.                                                         *)

\* seconds between two runs of the job (interval_minutes, scaled down)
Interval == 2

MonitoringFeedOutcomes ==
    [kind : {"ok"},
     markets : { <<>>, <<ElectionMarket>>, <<ElectionMarket, GdpMarket>>,
                 <<GdpMarket, RecessionMarket>>,
                 <<GdpMarket, NullDescriptionMarket>> }]
        \cup [kind : {"ConnectionError", "Timeout", "HTTPError"}]

\* one outcome for each URL of get_economy_resolution_sources
MonitoringResponses ==
    [1..Len(get_economy_resolution_sources) ->
        {o \in MainHttpOutcomes : o.kind = "ok" => o.mention = "none"}]

\* [m for m in markets if categorize_market_domain(...) == "economy"]
RECURSIVE EconomyLoop(_, _, _)
EconomyLoop(ms, i, kept) ==
    IF i > Len(ms) THEN Return(kept)
    ELSE LET c == categorize_market_domain(ms[i].question, GetDescription(ms[i]))
         IN  IF c.raised THEN c
             ELSE EconomyLoop(ms, i + 1,
                              IF c.value = "economy" THEN Append(kept, ms[i])
                              ELSE kept)

\* for source in economy_sources: source_data[source] = monitor_resolution_source(...)
RECURSIVE ProbeLoop(_, _, _)
ProbeLoop(responses, k, sd) ==
    IF k > Len(get_economy_resolution_sources) THEN Return(sd)
    ELSE LET url == get_economy_resolution_sources[k]
             r == monitor_resolution_source(url, get_source_keywords(url), responses[k])
         IN  IF r.raised THEN r
             ELSE ProbeLoop(responses, k + 1, SetProbe(sd, url, r.value))

\* how a cycle ends: escaped is an exception that left the job, error is
\* the one the job caught and printed ("none" when there was none)
CycleEnd(escaped, error, ms, sd, opps) ==
    [escaped |-> escaped, error |-> error, markets |-> ms,
     source_data |-> sd, opportunities |-> opps]

\* the statements of the job after the fetch, all inside "try"
AfterFetch(fetched, responses, now) ==
    LET economy_markets == EconomyLoop(fetched, 1, <<>>)
    IN  IF economy_markets.raised
        THEN CycleEnd(FALSE, economy_markets.value, <<>>, <<>>, <<>>)
        ELSE IF economy_markets.value = <<>>
        THEN CycleEnd(FALSE, "none", <<>>, <<>>, <<>>)
        ELSE LET probes == ProbeLoop(responses, 1, <<>>)
             IN  IF probes.raised
                 THEN CycleEnd(FALSE, probes.value, economy_markets.value, <<>>, <<>>)
                 ELSE LET found == DetectOpportunities(economy_markets.value, probes.value, now)
                      IN  IF found.raised
                          THEN CycleEnd(FALSE, found.value, economy_markets.value, probes.value, <<>>)
                          ELSE CycleEnd(FALSE, "none", economy_markets.value, probes.value, found.value)

\* a slip: the fetch placed before the try block
monitoring_job_FetchOutsideTry(feed, responses, now) ==
    LET fetched == fetch_open_markets(feed)
    IN  IF fetched.raised
        THEN CycleEnd(TRUE, fetched.value, <<>>, <<>>, <<>>)
        ELSE AfterFetch(fetched.value, responses, now)

\* try: fetch, filter, probe, detect; except Exception: print
monitoring_job(feed, responses, now) ==
    LET fetched == fetch_open_markets(feed)
    IN  IF fetched.raised
        THEN CycleEnd(FALSE, fetched.value, <<>>, <<>>, <<>>)
        ELSE AfterFetch(fetched.value, responses, now)

InitMonitoring ==
    /\ op = "init"
    /\ args = <<>>
    /\ ret = NoCall
    /\ markets = <<>>
    /\ source_data = <<>>
    /\ clock = 0
    /\ opportunities = <<>>
    /\ signals = <<>>
    /\ backtest_results = <<>>
    /\ db = <<>>
    /\ detector_runs = <<>>
    /\ pc = "run_pending"

\* schedule.run_pending() when the job is not due yet
RunPendingIdle ==
    /\ pc = "run_pending"
    /\ clock < Interval
    /\ op' = "run_pending"
    /\ pc' = "sleep"
    /\ UNCHANGED <<args, ret, markets, source_data, clock, opportunities,
                   signals, backtest_results, db, detector_runs>>

\* schedule.run_pending() when the job is due: the job runs and is scheduled
\* again; an exception that leaves the job leaves run_pending and the loop
RunMonitoringJob ==
    /\ pc = "run_pending"
    /\ clock >= Interval
    /\ \E feed \in MonitoringFeedOutcomes, responses \in MonitoringResponses :
          /\ op' = "monitoring_job"
          /\ args' = [feed |-> feed, responses |-> responses]
          /\ \E cycle \in {monitoring_job(feed, responses, 0)} :
                /\ ret' = IF cycle.escaped THEN Raise(cycle.error)
                          ELSE Return(cycle.error)
                /\ markets' = cycle.markets
                /\ source_data' = cycle.source_data
                /\ opportunities' = cycle.opportunities
          /\ pc' = IF ret'.raised THEN "crashed" ELSE "sleep"
    /\ clock' = 0
    /\ UNCHANGED <<signals, backtest_results, db, detector_runs>>

\* time.sleep(1)
Sleep ==
    /\ pc = "sleep"
    /\ op' = "sleep"
    /\ clock' = IF clock < Interval THEN clock + 1 ELSE clock
    /\ pc' = "run_pending"
    /\ UNCHANGED <<args, ret, markets, source_data, opportunities, signals,
                   backtest_results, db, detector_runs>>

\* Ctrl+C: except KeyboardInterrupt ends the loop
KeyboardInterrupt ==
    /\ pc \in {"run_pending", "sleep"}
    /\ op' = "KeyboardInterrupt"
    /\ pc' = "stopped"
    /\ UNCHANGED <<args, ret, markets, source_data, clock, opportunities,
                   signals, backtest_results, db, detector_runs>>

SchedulerStep == RunPendingIdle \/ RunMonitoringJob \/ Sleep

NextMonitoring == SchedulerStep \/ KeyboardInterrupt

\* the loop keeps taking steps while the process lives: sleep returns and
\* the job ends; the user may never interrupt
SpecMonitoring ==
    InitMonitoring /\ [][NextMonitoring]_vars /\ WF_vars(SchedulerStep)

\* the cycle that just ended hit an error
CycleFailed == op = "monitoring_job" /\ ret.value # "none"

\* the loop has slept the interval out: run_pending runs the job next
JobDue == pc = "run_pending" /\ op = "sleep" /\ clock >= Interval

Stopped == pc = "stopped"

\* C15: an error inside a monitoring cycle ends only that cycle: the
\* exception does not leave the job, the loop goes on to sleep, the job
\* becomes due again and is run again unless the user interrupts; the loop
\* stops only on a user interrupt.
C15_FailedCycleIsRetried ==
    /\ [](op = "monitoring_job" => ~ret.raised /\ pc = "sleep")
    /\ [](pc \in {"run_pending", "sleep", "stopped"})
    /\ [][pc' = "stopped" => op' = "KeyboardInterrupt"]_vars
    /\ [](CycleFailed => <>(Stopped \/ JobDue))
    /\ [](JobDue => <>(Stopped \/ op = "monitoring_job"))

\* a cycle whose market fetch failed has ended and the loop sleeps
C15_Witness ==
    /\ CycleFailed
    /\ args.feed.kind = "Timeout"
    /\ ~ret.raised
    /\ pc = "sleep"

-----------------------------------------------------------------------------
(* SpecSignals: generate_trading_signals and backtest_strategy on batches  *)
(* of opportunity dicts of any content, as a caller may pass them          *)

SignalScores ==
    {Zero, Frac(29, 100), Frac(3, 10), Frac(1, 2), Frac(51, 100), Frac(8, 10),
     Frac(81, 100), One}

SignalUrls == {FredUrl, FederalReserveUrl, BareBeaUrl, UnknownUrl}

\* str(market_id): empty, and ids with checksums 6, 0 and 8 mod 10
SignalIds == {<<>>, <<"1", "9">>, <<"2">>, <<"0">>}

\* an opportunity dict; an unparseable timestamp is one fromisoformat rejects
SignalOpportunity(market_id, source_url, relevance_score, confidence, parseable) ==
    [market_id |-> market_id,
     question |-> <<"Q">>,
     source_url |-> source_url,
     confidence |-> confidence,
     relevance_score |-> relevance_score,
     reason |-> [source |-> source_url, score |-> Hundredths(relevance_score)],
     timestamp |-> [parseable |-> parseable, at |-> 0]]

SignalOpportunities ==
    {SignalOpportunity(id, url, score, confidence, parseable) :
        id \in SignalIds, url \in SignalUrls, score \in SignalScores,
        confidence \in {"high", "medium", "low"}, parseable \in BOOLEAN}

\* opportunities that give a buy, a sell and a monitor signal
BuyOpportunity == SignalOpportunity(<<"1", "9">>, FredUrl, Frac(1, 2), "medium", TRUE)

SellOpportunity == SignalOpportunity(<<"2">>, BareBeaUrl, Frac(29, 100), "low", TRUE)

MonitorOpportunity == SignalOpportunity(<<"0">>, FredUrl, One, "high", TRUE)

SignalBatches ==
    {<<>>} \cup {<<o>> : o \in SignalOpportunities}
        \cup { <<BuyOpportunity, SellOpportunity>>,
               <<SellOpportunity, MonitorOpportunity>>,
               <<SellOpportunity, BuyOpportunity, MonitorOpportunity>>,
               <<MonitorOpportunity, MonitorOpportunity, SellOpportunity>>,
               <<BuyOpportunity, BuyOpportunity>> }

\* total latencies on and beside the thresholds of the grades
Latencies ==
    { Zero, <<500, 1>>, Frac(5001, 10), <<1000, 1>>, Frac(10001, 10),
      <<2000, 1>>, <<2001, 1>>, <<5000, 1>>, <<5001, 1>>, <<10000, 1>>,
      <<10001, 1>>, <<-5, 1>>, <<750, 1>> }

InitSignals ==
    /\ op = "init"
    /\ args = <<>>
    /\ ret = NoCall
    /\ markets = <<>>
    /\ source_data = <<>>
    /\ clock = 0
    /\ opportunities \in SignalBatches
    /\ signals = <<>>
    /\ backtest_results = <<>>
    /\ db = <<>>
    /\ detector_runs = <<>>
    /\ pc = "call"

CallGetTimingGrade ==
    /\ op = "init"
    /\ \E total_latency_ms \in Latencies :
          /\ op' = "get_timing_grade"
          /\ args' = [total_latency_ms |-> total_latency_ms]
          /\ ret' = Return(get_timing_grade(total_latency_ms))
    /\ UNCHANGED pipeline_vars

NextSignals ==
    \/ Tick
    \/ generate_trading_signals
    \/ CallBacktestStrategy
    \/ CallGetTimingGrade

SpecSignals == InitSignals /\ [][NextSignals]_vars

\* |v - p| with v read as 1 or 0
AbsDiff(signal) ==
    LET p == signal.polymarket_probability
    IN  IF signal.information_value
        THEN (IF RLess(One, p) THEN RSub(p, One) ELSE RSub(One, p))
        ELSE (IF RLess(p, Zero) THEN RSub(Zero, p) ELSE p)

\* the action the claim gives for a signal
ClaimedAction(signal) ==
    LET diff == AbsDiff(signal)
    IN  IF RLess(Frac(10, 100), diff) /\ signal.information_value THEN "buy"
        ELSE IF RLess(Frac(10, 100), diff) /\ ~signal.information_value THEN "sell"
        ELSE IF RLess(Frac(5, 100), diff) /\ RLeq(diff, Frac(10, 100)) THEN "monitor"
        ELSE "ignore"

\* C21: every signal's action is buy when |v - p| > 0.10 and v is true, sell
\* when |v - p| > 0.10 and v is false, monitor when 0.05 < |v - p| <= 0.10
\* and ignore when |v - p| <= 0.05; it is always one of these four.
C21_ActionByDifference ==
    \A k \in 1..Len(signals) :
        /\ signals[k].action \in {"buy", "sell", "monitor", "ignore"}
        /\ signals[k].action = ClaimedAction(signals[k])

\* a batch with a sell, a buy and a monitor signal
C21_Witness ==
    /\ Len(signals) = 3
    /\ signals[1].action = "sell"
    /\ signals[2].action = "buy"
    /\ signals[3].action = "monitor"
    /\ AbsDiff(signals[3]) = Frac(88, 1000)

-----------------------------------------------------------------------------
(* SpecTiming: direct calls of estimate_trade_execution_time               *)

\* the four actions and one that base_times does not list
TimingActions == {"buy", "sell", "monitor", "ignore", "hold"}

\* probabilities and relevance scores on and beside 0.3 and 0.8
TimingFractions ==
    {Zero, Frac(29, 100), Frac(3, 10), Frac(1, 2), Frac(8, 10), Frac(81, 100),
     One}

InitTiming ==
    /\ op = "init"
    /\ args \in [action : TimingActions,
                 polymarket_probability : TimingFractions,
                 relevance_score : TimingFractions]
    /\ ret = NoCall
    /\ markets = <<>>
    /\ source_data = <<>>
    /\ clock = 0
    /\ opportunities = <<>>
    /\ signals = <<>>
    /\ backtest_results = <<>>
    /\ db = <<>>
    /\ detector_runs = <<>>
    /\ pc = "call"

CallEstimateTradeExecutionTime ==
    /\ op = "init"
    /\ op' = "estimate_trade_execution_time"
    /\ ret' = Return(estimate_trade_execution_time(args.action,
                                                   args.polymarket_probability,
                                                   args.relevance_score))
    /\ UNCHANGED <<args, pipeline_vars>>

NextTiming == CallEstimateTradeExecutionTime

SpecTiming == InitTiming /\ [][NextTiming]_vars

\* base x kp x kr + (50 + 100 r) + (200 + 300 p)
ClaimedExecutionTime(action, p, r) ==
    LET base == IF action = "buy" THEN <<800, 1>>
                ELSE IF action = "sell" THEN <<600, 1>>
                ELSE Zero
        kp == IF RLess(Frac(8, 10), p) THEN Frac(8, 10)
              ELSE IF RLess(p, Frac(3, 10)) THEN Frac(13, 10)
              ELSE One
        kr == IF RLess(Frac(8, 10), r) THEN Frac(9, 10)
              ELSE IF RLess(r, Frac(3, 10)) THEN Frac(12, 10)
              ELSE One
    IN  RAdd(RMul(RMul(base, kp), kr),
             RAdd(RAdd(<<50, 1>>, RMul(<<100, 1>>, r)),
                  RAdd(<<200, 1>>, RMul(<<300, 1>>, p))))

\* C22: estimate_trade_execution_time returns
\* base x kp x kr + (50 + 100 x relevance) + (200 + 300 x probability) with
\* base 800 for buy, 600 for sell, 0 for monitor and ignore, kp 0.8 above
\* probability 0.8 and 1.3 below 0.3, kr 0.9 above relevance 0.8 and 1.2
\* below 0.3; for monitor and ignore the estimate lies between 250 and 650.
C22_ExecutionTimeFormula ==
    (op = "estimate_trade_execution_time"
        /\ args.action \in {"buy", "sell", "monitor", "ignore"}) =>
        /\ ~ret.raised
        /\ ret.value = ClaimedExecutionTime(args.action,
                                            args.polymarket_probability,
                                            args.relevance_score)
        /\ args.action \in {"monitor", "ignore"} =>
              /\ RLeq(<<250, 1>>, ret.value)
              /\ RLeq(ret.value, <<650, 1>>)

\* a buy at probability 0.81 and relevance 0.81: 800 x 0.8 x 0.9 + 131 + 443
C22_Witness ==
    /\ op = "estimate_trade_execution_time"
    /\ args.action = "buy"
    /\ args.polymarket_probability = Frac(81, 100)
    /\ args.relevance_score = Frac(81, 100)
    /\ ret.value = <<1150, 1>>

\* the grades from best to worst
GradeRank == [g \in {"A+", "A", "B", "C", "D", "F"} |->
                 CASE g = "A+" -> 0 [] g = "A" -> 1 [] g = "B" -> 2
                   [] g = "C" -> 3 [] g = "D" -> 4 [] g = "F" -> 5]

\* the best grade whose threshold the latency does not exceed
ClaimedGrade(total) ==
    LET thresholds == <<500, 1000, 2000, 5000, 10000>>
        names == <<"A+", "A", "B", "C", "D", "F">>
        passed == {k \in 1..5 : RLeq(total, <<thresholds[k], 1>>)}
    IN  IF passed = {} THEN "F"
        ELSE names[CHOOSE k \in passed : \A j \in passed : k <= j]

\* C23: every signal's total_latency_ms is reaction_time_ms plus
\* estimated_execution_time_ms and its timing_grade is the grade of that
\* total (A+ up to 500, A up to 1000, B up to 2000, C up to 5000, D up to
\* 10000, else F, thresholds included; a larger latency never has a better
\* grade); an opportunity whose timestamp cannot be parsed still gets its
\* signal, with reaction_time_ms equal to the measured construction time.
C23_LatencyAndGrade ==
    /\ \A k \in 1..Len(signals) :
          /\ signals[k].total_latency_ms
                = RAdd(signals[k].reaction_time_ms,
                       signals[k].estimated_execution_time_ms)
          /\ signals[k].timing_grade = ClaimedGrade(signals[k].total_latency_ms)
          /\ ~signals[k].timestamp.parseable
                => signals[k].reaction_time_ms
                      = signals[k].signal_generation_time_ms
    /\ op = "generate_trading_signals" =>
          /\ ~ret.raised
          /\ Len(ret.value) = Len(args.opportunities)
    /\ op = "get_timing_grade" =>
          /\ ret.value = ClaimedGrade(args.total_latency_ms)
          /\ \A lower \in Latencies :
                RLeq(lower, args.total_latency_ms)
                    => GradeRank[get_timing_grade(lower)] <= GradeRank[ret.value]

\* a signal made one tick after detection from a timestamp that does not
\* parse: its reaction time is the construction time, not the tick
C23_Witness ==
    /\ op = "generate_trading_signals"
    /\ clock = 1
    /\ Len(signals) = 1
    /\ ~signals[1].timestamp.parseable
    /\ signals[1].reaction_time_ms = Zero
    /\ signals[1].action = "sell"
    /\ signals[1].timing_grade = "B"

\* the sum of a field over a batch, added from the last signal backwards
RECURSIVE ClaimedSum(_, _)
ClaimedSum(sigs, field) ==
    IF sigs = <<>> THEN Zero
    ELSE RAdd(ClaimedSum(SubSeq(sigs, 1, Len(sigs) - 1), field),
              sigs[Len(sigs)][field])

\* how many signals of a batch have the action buy
Buys(sigs) == Cardinality({k \in DOMAIN sigs : sigs[k].action = "buy"})

\* C24: for a non-empty batch backtest_strategy returns total_signals = the
\* batch size, high_confidence_signals = the number of buy signals,
\* success_rate 0.75 with a buy signal and 0.50 without, total_roi_v1 and
\* total_roi_v2 = the sums over the batch, avg_roi_v1 and avg_roi_v2 = the
\* sums divided by the size, true_signals = the number of signals with a
\* true information_value and false_signals the rest; the summary is a
\* function of the batch alone.
C24_SummaryOfBatch ==
    (op = "backtest_strategy" /\ args.signals # <<>>) =>
        LET batch == args.signals
            n == Len(batch)
            summary == ret.value
        IN  /\ ~ret.raised
            /\ summary = backtest_results
            /\ summary.total_signals = n
            /\ summary.high_confidence_signals = Buys(batch)
            /\ summary.success_rate
                  = (IF Buys(batch) >= 1 THEN Frac(75, 100) ELSE Frac(50, 100))
            /\ summary.total_roi_v1 = ClaimedSum(batch, "roi_v1")
            /\ summary.total_roi_v2 = ClaimedSum(batch, "roi_v2")
            /\ summary.avg_roi_v1 = RMul(ClaimedSum(batch, "roi_v1"), Frac(1, n))
            /\ summary.avg_roi_v2 = RMul(ClaimedSum(batch, "roi_v2"), Frac(1, n))
            /\ summary.true_signals
                  = Cardinality({k \in 1..n : batch[k].information_value})
            /\ summary.true_signals + summary.false_signals = n

\* the summary of a sell, a buy of medium confidence and a monitor of high
\* confidence: one high-confidence signal, the buy
C24_Witness ==
    /\ op = "backtest_strategy"
    /\ Len(args.signals) = 3
    /\ args.signals[2].action = "buy"
    /\ args.signals[2].confidence = "medium"
    /\ args.signals[3].confidence = "high"
    /\ ret.value.high_confidence_signals = 1
    /\ ret.value.success_rate = Frac(75, 100)
    /\ ret.value.false_signals = 1

-----------------------------------------------------------------------------
(* SpecKeywords: direct calls of extract_market_keywords                   *)

\* pieces the texts are built from: a trigger of each rule, some in upper
\* case, the two halves of "fed rate", and a filler
KeywordChunks ==
    { <<"S", "p", "e", "n", "d", "i", "n", "g">>,
      <<"f", "e", "d", "e", "r", "a", "l", " ", "s", "p", "e", "n",
        "d", "i", "n", "g">>,
      <<"f", "e", "d", " ", "r", "a", "t", "e">>,
      <<"R", "a", "t", "e", " ", "H", "i", "k", "e">>,
      <<"r", "a", "t", "e", " ", "c", "u", "t">>,
      <<"G", "D", "P">>,
      <<"g", "r", "o", "s", "s", " ", "d", "o", "m", "e", "s", "t",
        "i", "c", " ", "p", "r", "o", "d", "u", "c", "t">>,
      <<"R", "E", "C", "E", "S", "S", "I", "O", "N">>,
      <<"t", "h", "e", " ", "f", "e", "d">>,
      <<"r", "a", "t", "e">>,
      <<"x">> }

\* a piece, or two pieces with a blank between them
KeywordQuestions ==
    {<<>>} \cup KeywordChunks
        \cup {a \o <<" ">> \o b : a \in KeywordChunks, b \in KeywordChunks}

KeywordDescriptions == {<<>>} \cup KeywordChunks

InitKeywords ==
    /\ op = "init"
    /\ args \in [question : {PyStr(q) : q \in KeywordQuestions},
                 description : {PyStr(d) : d \in KeywordDescriptions}]
    /\ ret = NoCall
    /\ markets = <<>>
    /\ source_data = <<>>
    /\ clock = 0
    /\ opportunities = <<>>
    /\ signals = <<>>
    /\ backtest_results = <<>>
    /\ db = <<>>
    /\ detector_runs = <<>>
    /\ pc = "call"

CallExtractMarketKeywords ==
    /\ op = "init"
    /\ op' = "extract_market_keywords"
    /\ ret' = Return(extract_market_keywords(args.question, args.description))
    /\ UNCHANGED <<args, pipeline_vars>>

NextKeywords == CallExtractMarketKeywords

SpecKeywords == InitKeywords /\ [][NextKeywords]_vars

\* the four rules of the claim: trigger substrings and keyword bundle
ClaimedRules ==
    { [triggers |-> {<<"s", "p", "e", "n", "d", "i", "n", "g">>},
       bundle |-> {"federal spending", "government spending", "expenditure",
                   "budget"}],
      [triggers |-> {<<"f", "e", "d", " ", "r", "a", "t", "e">>,
                     <<"r", "a", "t", "e", " ", "h", "i", "k", "e">>,
                     <<"r", "a", "t", "e", " ", "c", "u", "t">>},
       bundle |-> {"federal reserve", "interest rate", "monetary policy",
                   "fed funds"}],
      [triggers |-> {<<"g", "d", "p">>,
                     <<"g", "r", "o", "s", "s", " ", "d", "o", "m", "e", "s", "t",
                      "i", "c", " ", "p", "r", "o", "d", "u", "c", "t">>},
       bundle |-> {"gdp", "gross domestic product", "economic growth"}],
      [triggers |-> {<<"r", "e", "c", "e", "s", "s", "i", "o", "n">>},
       bundle |-> {"recession", "economic downturn", "nber"}] }

\* the rules a call's text triggers
TriggeredRules ==
    LET text == Lower(args.question.s \o <<" ">> \o args.description.s)
    IN  {rule \in ClaimedRules : \E trigger \in rule.triggers : Contains(text, trigger)}

\* C25: extract_market_keywords returns the union, without duplicates, of
\* the bundles of exactly those rules whose trigger occurs in the
\* lower-cased question + " " + description; a text that triggers several
\* rules gets all their bundles and a text that triggers none gets nothing.
C25_UnionOfTriggeredBundles ==
    op = "extract_market_keywords" =>
        /\ ~ret.raised
        /\ ret.value = UNION {rule.bundle : rule \in TriggeredRules}
        /\ TriggeredRules = {} => ret.value = {}

\* a question that triggers the recession rule and the spending rule, the
\* description triggering the GDP rule in upper case: ten keywords
C25_Witness ==
    /\ op = "extract_market_keywords"
    /\ Cardinality(TriggeredRules) = 3
    /\ args.description.s = <<"G", "D", "P">>
    /\ Cardinality(ret.value) = 10

-----------------------------------------------------------------------------
(* The configured sources and the profile table                            *)

\* the keys of the dict source_keywords
ProfileHosts ==
    { <<"f", "r", "e", "d", ".", "s", "t", "l", "o", "u", "i", "s",
        "f", "e", "d", ".", "o", "r", "g">>,
      <<"f", "e", "d", "e", "r", "a", "l", "r", "e", "s", "e",
        "r", "v", "e", ".", "g", "o", "v">>,
      <<"b", "e", "a", ".", "g", "o", "v">>,
      <<"n", "b", "e", "r", ".", "o", "r", "g">> }

\* the profile of the institution a URL belongs to
ProfileOfInstitution(url) ==
    UNION {SourceProfile(host) : host \in {h \in ProfileHosts : Contains(url, h)}}

\* a call of calculate_relevance for one of the four configured URLs
ConfiguredSourceCall ==
    /\ op = "calculate_relevance"
    /\ args.source_url \in Elements(get_economy_resolution_sources)

\* C26: each of the four URLs of get_economy_resolution_sources resolves,
\* through the host lookup of calculate_relevance, to a non-empty keyword
\* profile, so that market keywords which share a keyword with the source's
\* profile score above zero (and, with enough overlap, yield an opportunity
\* for each of the four sources).
C26_ConfiguredSourcesHaveProfiles ==
    ConfiguredSourceCall =>
        /\ SourceProfile(HostOf(args.source_url)) # {}
        /\ args.market_keywords \cap ProfileOfInstitution(args.source_url) # {}
              => RLess(Zero, ret.value)

-----------------------------------------------------------------------------
(* Signals of an end-to-end run                                            *)

\* C27: in a run of main, where the probes are those of the four configured
\* URLs and the signals come from the detector's opportunities, every
\* signal has relevance_score > 0.3 and information_value true, and its
\* action is buy or monitor, never sell or ignore.
C27_RunSignalsBuyOrMonitor ==
    \A k \in 1..Len(signals) :
        /\ RLess(Frac(3, 10), signals[k].relevance_score)
        /\ signals[k].information_value
        /\ signals[k].action \in {"buy", "monitor"}

\* a run of main whose signals are a monitor and a buy, the buy from a
\* relevance below one half
C27_Witness ==
    /\ pc = "backtest"
    /\ Len(signals) = 2
    /\ signals[1].action = "monitor"
    /\ signals[2].action = "buy"
    /\ RLess(signals[2].relevance_score, Frac(1, 2))
    /\ \A j \in 1..Len(source_data) : source_data[j].info.status = "success"

\* C28: a signal with a non-negative reaction time that says buy has an
\* execution estimate above 1000 ms, so its grade is neither A+ nor A; one
\* that says sell has an estimate above 500 ms, so its grade is not A+;
\* only monitor and ignore signals can have the grade A+.
C28_TradesAreNeverFast ==
    \A k \in 1..Len(signals) :
        RLeq(Zero, signals[k].reaction_time_ms) =>
            /\ signals[k].action = "buy" =>
                  /\ RLess(<<1000, 1>>, signals[k].estimated_execution_time_ms)
                  /\ signals[k].timing_grade \notin {"A+", "A"}
            /\ signals[k].action = "sell" =>
                  /\ RLess(<<500, 1>>, signals[k].estimated_execution_time_ms)
                  /\ signals[k].timing_grade # "A+"
            /\ signals[k].timing_grade = "A+" =>
                  signals[k].action \in {"monitor", "ignore"}

\* a buy at probability above 0.8 and relevance above 0.8, where both
\* scalings shorten the base time: still graded B
C28_Witness ==
    /\ op = "generate_trading_signals"
    /\ Len(signals) = 1
    /\ signals[1].action = "buy"
    /\ RLess(Frac(8, 10), signals[1].polymarket_probability)
    /\ RLess(Frac(8, 10), signals[1].relevance_score)
    /\ signals[1].reaction_time_ms = Zero
    /\ signals[1].timing_grade = "B"

-----------------------------------------------------------------------------
(* V2 against V1                                                           *)

\* a call of calculate_potential_roi for an open market and a probability
\* in [0, 1]
OpenMarketRoiCall ==
    /\ op = "calculate_potential_roi"
    /\ ret.value.market_status = "open"
    /\ RLeq(Zero, ret.value.polymarket_probability)
    /\ RLeq(ret.value.polymarket_probability, One)

\* V2 is not above V1 for a true verdict and not below it for a false one
V2OnTheSafeSide(r) ==
    IF r.information_value THEN RLeq(r.roi_v2, r.roi_v1)
    ELSE RLeq(r.roi_v1, r.roi_v2)

\* C29: for a probability in [0, 1], any fee and an open market, V2 equals
\* V1 when time_factor is 1, and when time_factor is at least 1 V2 is at
\* most V1 for a true verdict and at least V1 for a false one; so it is on
\* every generated signal, whose time_factor is 1.1.
C29_V2AgainstV1 ==
    /\ OpenMarketRoiCall =>
          /\ ret.value.time_factor = One => ret.value.roi_v2 = ret.value.roi_v1
          /\ RLeq(One, ret.value.time_factor) => V2OnTheSafeSide(ret.value)
    /\ \A k \in 1..Len(signals) : V2OnTheSafeSide(signals[k])

\* a true verdict at probability 0.7 and fee 0.02 with time_factor 1.1:
\* V1 is 0.28 and V2 is 0.21
C29_Witness ==
    /\ OpenMarketRoiCall
    /\ ret.value.information_value
    /\ ret.value.time_factor = Frac(11, 10)
    /\ ret.value.roi_v1 = Frac(28, 100)
    /\ ret.value.roi_v2 = Frac(21, 100)

-----------------------------------------------------------------------------
(* The backtest report of main                                             *)

\* the fields of the summary of a non-empty batch
SummaryFields ==
    {"total_signals", "high_confidence_signals", "success_rate",
     "total_roi_v1", "total_roi_v2", "avg_roi_v1", "avg_roi_v2",
     "true_signals", "false_signals", "avg_polymarket_probability",
     "roi_improvement_v2"}

\* C30: backtest_strategy returns the same set of fields for an empty batch
\* as for a non-empty one (high_confidence_signals, true_signals,
\* false_signals and avg_polymarket_probability among them), so a run of
\* main that generates no signal gets through the backtest report without
\* an error.
C30_EmptyBatchReportCompletes ==
    /\ op = "backtest_strategy" => DOMAIN ret.value = SummaryFields
    /\ op = "report" => ~ret.raised /\ pc = "done"

=============================================================================
